---- MODULE Spec2Model ----
(***************************************************************************)
(* Verification model of the Forza telemetry pipeline (package track and   *)
(* the driver in main.go): path reconstruction, lap segmentation, master   *)
(* lap building, event and overtake detection, lap metrics.                *)
(*                                                                         *)
(* Numbers.  The program computes in float64.  The model computes in exact *)
(* integer arithmetic: every real quantity is an integer count of a fixed  *)
(* unit (times and event-detector magnitudes in hundredths, geometry in    *)
(* grid units), quotients are kept as fractions and compared by cross      *)
(* multiplication, and a square root is the integer square root.  The path *)
(* reconstructor and the master builder compute in exact rationals         *)
(* [n |-> numerator, d |-> denominator] in lowest terms, where d = 0 is    *)
(* NaN.  Rounding error of float64 is therefore outside the model.         *)
(***************************************************************************)
EXTENDS Integers, Sequences, FiniteSets, TLC

VARIABLES
    \* ---- DetectEvents (src/track/eventdetection.go:46-206) ----
    samples,        \* the input slice, revealed one sample per loop iteration
    events,         \* events appended so far
    lastOfType,     \* map[string]float64: last emission time per type, 0 if absent
    resetStart,     \* index where the current near-zero run began, -1 if none
    resetAccum,     \* accumulated near-zero duration
    seenOn,         \* race-active flag has been seen on
    driftActive,
    tractionActive,
    lastPos,        \* last known positive race position, -1 if none
    pc,             \* "scan" while the loop runs, "done" after return
    \* ---- detectPair (src/track/eventdetection.go:260-326) ----
    aPts,           \* mapped points of session "a"
    bPts,           \* mapped points of session "b"
    overtakes,      \* the returned []OvertakeEvent
    ovpc,           \* "call" before detectPair runs, "done" after it returned
    \* ---- lap segmentation (src/unnamed/part_002, src/track/track.go:303-363,
    \*      src/track/util.go:26-47) ----
    trackPoints,    \* []models.Trackpoint of one session
    lapNumbers,     \* the LapNumber column of one session's samples
    lapFn,          \* the segmentation function that was called, "" before the call
    lapArgs,        \* the parameters it was called with
    lapIdx,         \* the boundary list it returned (<<>> is nil)
    \* ---- BuildTrack (src/track/track.go:218-284) ----
    btSamples,      \* the []models.Sample passed in; BuildTrack writes SmoothAx
    btTrack,        \* the returned []models.Trackpoint (<<>> is nil)
    btErr,          \* TRUE when the returned error is non-nil
    btpc,           \* "call" before BuildTrack runs, "done" after it returned
    \* ---- ComputeLapMetrics (src/unnamed/part_003:18-104) ----
    lmSamples,      \* the session's samples (their Time)
    lmPoints,       \* the session's trackpoints (their S)
    lmLapIdx,       \* the lap boundaries passed in
    lmSectors,      \* the number of sectors passed in
    lmOut,          \* the returned []LapMetrics (<<>> is nil)
    lmpc,           \* "call" before ComputeLapMetrics runs, "done" after it returned,
                    \* "best" after bestSectorTimes returned
    lmBest,         \* the slice bestSectorTimes returned (main.go:884-899)
    \* ---- BuildMasterLap, alignLapToRef (src/track/track.go:14-216) ----
    mlPoints,       \* the trackpoints of the reference session
    mlLapIdx,       \* its lap boundaries
    mlCount,        \* the number of points per resampled lap (-master-samples)
    mlOut,          \* the master lap returned by BuildMasterLap (<<>> is nil)
    alRef,          \* the reference lap passed to alignLapToRef
    alLap,          \* the lap passed to alignLapToRef
    alOut,          \* the aligned lap it returned
    mlpc,           \* "call", then "built" after BuildMasterLap or "aligned"
                    \* after alignLapToRef returned
    \* ---- MapRelSToMaster (src/track/eventdetection.go:418-436) ----
    mapMaster,      \* the master path passed in
    mapRelS,        \* the relative arc length passed in
    mapP,           \* <<px, py>>
    mapOut,         \* the five values returned (<<>> before the call)
    mappc,          \* "call" before MapRelSToMaster runs, "done" after
    mapLap,         \* the lap segment passed to MapToMaster
    mapStart,       \* startIndex
    mapScale,       \* scaleS
    mapEmit,        \* the callback's calls, in order
    \* ---- main, phase 1 and the master build (src/main.go:113-276) ----
    \* The program is run twice on the same input (run 1, run 2); every
    \* variable but the input is a function of the run.
    inputFiles,     \* the input sessions, in command-line order
    flags,          \* the flags -sprint and -lap-count
    workerPc,       \* per session worker: "start", "loaded", "done"
    results,        \* the buffered channel results
    mainPc,         \* "wait" (wg.Wait), "range", then "exit1" or "mapped"
    allPoints,      \* the aggregated trackpoints
    allLapIdx,      \* the aggregated lap boundaries
    lapsAdded,      \* the number of laps aggregated
    lapSource,      \* history: the session each aggregated lap came from
    sessions,       \* the aggregated sessions (their input position)
    detectedSprint, \* some aggregated session is a sprint
    masterTrack,    \* the master path (<<>> is nil)
    sendCount,      \* history: how many results each phase-1 worker has sent
    received,       \* history: the sessions whose result main has received
    \* ---- main, phase 2 and the merge (src/main.go:278-734), run 1 ----
    phase2Pc,       \* per aggregated session: "ready", "computed", "done"
                    \* (<<>> before the workers are started)
    partials,       \* the slice partials
    accesses,       \* history: who read or wrote which location in phase 2
    outCars         \* out.Cars after the merge

evVars == <<samples, events, lastOfType, resetStart, resetAccum, seenOn,
            driftActive, tractionActive, lastPos, pc>>

ovVars == <<aPts, bPts, overtakes, ovpc>>

lapVars == <<trackPoints, lapNumbers, lapFn, lapArgs, lapIdx>>

btVars == <<btSamples, btTrack, btErr, btpc>>

lmVars == <<lmSamples, lmPoints, lmLapIdx, lmSectors, lmOut, lmpc, lmBest>>

mlVars == <<mlPoints, mlLapIdx, mlCount, mlOut, alRef, alLap, alOut, mlpc>>

mapVars == <<mapMaster, mapRelS, mapP, mapOut, mappc, mapLap, mapStart, mapScale, mapEmit>>

runVars == <<inputFiles, flags, workerPc, results, mainPc, allPoints, allLapIdx,
            lapsAdded, lapSource, sessions, detectedSprint, masterTrack,
            sendCount, received, phase2Pc, partials, accesses, outCars>>

vars == <<evVars, ovVars, lapVars, btVars, lmVars, mlVars, mapVars, runVars>>

\* what each component leaves alone: the state of the other components
notEv == <<ovVars, lapVars, btVars, lmVars, mlVars, mapVars, runVars>>
notOv == <<evVars, lapVars, btVars, lmVars, mlVars, mapVars, runVars>>
notLap == <<evVars, ovVars, btVars, lmVars, mlVars, mapVars, runVars>>
notBt == <<evVars, ovVars, lapVars, lmVars, mlVars, mapVars, runVars>>
notLm == <<evVars, ovVars, lapVars, btVars, mlVars, mapVars, runVars>>
notMl == <<evVars, ovVars, lapVars, btVars, lmVars, mapVars, runVars>>
notMap == <<evVars, ovVars, lapVars, btVars, lmVars, mlVars, runVars>>
notRun == <<evVars, ovVars, lapVars, btVars, lmVars, mlVars, mapVars>>

----------------------------------------------------------------------------
(* Bounds of the model *)

\* longest sample sequence fed to DetectEvents
MaxSamples == 4

\* longest sample sequence fed to BuildTrack
MaxTrackSamples == 3

\* longest session fed to ComputeLapMetrics
MaxMetricPoints == 4

\* longest session fed to BuildMasterLap
MaxMasterPoints == 6

----------------------------------------------------------------------------
(* A component that is not under study stays in its idle state *)

IdleOvertakes ==
    /\ aPts = <<>>
    /\ bPts = <<>>
    /\ overtakes = <<>>
    /\ ovpc = "idle"

NoArgs == [none |-> TRUE]

IdleLaps ==
    /\ trackPoints = <<>>
    /\ lapNumbers = <<>>
    /\ lapFn = "idle"
    /\ lapArgs = NoArgs
    /\ lapIdx = <<>>

IdleBuildTrack ==
    /\ btSamples = <<>>
    /\ btTrack = <<>>
    /\ btErr = FALSE
    /\ btpc = "idle"

IdleLapMetrics ==
    /\ lmSamples = <<>>
    /\ lmPoints = <<>>
    /\ lmLapIdx = <<>>
    /\ lmSectors = 0
    /\ lmOut = <<>>
    /\ lmpc = "idle"
    /\ lmBest = <<>>

IdleMaster ==
    /\ mlPoints = <<>>
    /\ mlLapIdx = <<>>
    /\ mlCount = 0
    /\ mlOut = <<>>
    /\ alRef = <<>>
    /\ alLap = <<>>
    /\ alOut = <<>>
    /\ mlpc = "idle"

IdleMap ==
    /\ mapMaster = <<>>
    /\ mapRelS = 0
    /\ mapP = <<0, 0>>
    /\ mapOut = <<>>
    /\ mappc = "idle"
    /\ mapLap = <<>>
    /\ mapStart = 0
    /\ mapScale = 0
    /\ mapEmit = <<>>

IdleRun ==
    /\ inputFiles = <<>>
    /\ flags = NoArgs
    /\ workerPc = <<>>
    /\ results = <<>>
    /\ mainPc = <<>>
    /\ allPoints = <<>>
    /\ allLapIdx = <<>>
    /\ lapsAdded = <<>>
    /\ lapSource = <<>>
    /\ sessions = <<>>
    /\ detectedSprint = <<>>
    /\ masterTrack = <<>>
    /\ sendCount = <<>>
    /\ received = <<>>
    /\ phase2Pc = <<>>
    /\ partials = <<>>
    /\ accesses = {}
    /\ outCars = <<>>

IdleOthersEv ==
    IdleOvertakes /\ IdleLaps /\ IdleBuildTrack /\ IdleLapMetrics /\ IdleMaster /\ IdleMap /\ IdleRun

----------------------------------------------------------------------------
(* Arithmetic helpers *)

Abs(x) == IF x < 0 THEN -x ELSE x

Max(a, b) == IF a >= b THEN a ELSE b

Min(a, b) == IF a <= b THEN a ELSE b

RECURSIVE ISqrtIter(_, _, _)
ISqrtIter(n, lo, hi) ==
    IF lo >= hi THEN lo
    ELSE LET mid == (lo + hi + 1) \div 2
         IN  IF mid * mid <= n THEN ISqrtIter(n, mid, hi)
             ELSE ISqrtIter(n, lo, mid - 1)

\* math.Sqrt on a non-negative integer, rounded down to the unit
ISqrt(n) == IF n <= 0 THEN 0 ELSE ISqrtIter(n, 0, Min(n, 46340))

\* math.Hypot
Hypot(a, b) == ISqrt(a * a + b * b)

Last(s) == s[Len(s)]

RECURSIVE SumSeq(_)
SumSeq(s) == IF s = <<>> THEN 0 ELSE s[1] + SumSeq(Tail(s))

RECURSIVE GCD(_, _)
GCD(a, b) == IF b = 0 THEN a ELSE GCD(b, a % b)

\* float64 values as exact rationals in lowest terms; d = 0 is NaN
NaN == [n |-> 0, d |-> 0]

Q(n, d) ==
    IF d = 0 THEN NaN
    ELSE LET g == GCD(Abs(n), Abs(d))
         IN  [n |-> (IF d < 0 THEN -n ELSE n) \div g, d |-> Abs(d) \div g]

Zero == Q(0, 1)

One == Q(1, 1)

IsNaN(a) == a.d = 0

\* sums and products are taken over the least common denominator, which
\* keeps the intermediate integers small
FAdd(a, b) ==
    IF IsNaN(a) \/ IsNaN(b) THEN NaN
    ELSE LET g == GCD(a.d, b.d)
         IN  Q(a.n * (b.d \div g) + b.n * (a.d \div g), (a.d \div g) * b.d)

FSub(a, b) ==
    IF IsNaN(a) \/ IsNaN(b) THEN NaN
    ELSE LET g == GCD(a.d, b.d)
         IN  Q(a.n * (b.d \div g) - b.n * (a.d \div g), (a.d \div g) * b.d)

FMul(a, b) ==
    IF IsNaN(a) \/ IsNaN(b) THEN NaN
    ELSE LET g1 == GCD(Abs(a.n), b.d)
             g2 == GCD(Abs(b.n), a.d)
         IN  Q((a.n \div g1) * (b.n \div g2), (a.d \div g2) * (b.d \div g1))

\* the program divides only by values it has tested to be positive
FDiv(a, b) ==
    IF IsNaN(a) \/ IsNaN(b) \/ b.n = 0 THEN NaN
    ELSE FMul(a, [n |-> IF b.n < 0 THEN -b.d ELSE b.d, d |-> Abs(b.n)])

\* comparisons with NaN are false
FEq(a, b) == ~IsNaN(a) /\ ~IsNaN(b) /\ a = b

FLt(a, b) ==
    /\ ~IsNaN(a) /\ ~IsNaN(b)
    /\ LET g == GCD(a.d, b.d) IN a.n * (b.d \div g) < b.n * (a.d \div g)

FGt(a, b) == FLt(b, a)

FLe(a, b) == FLt(a, b) \/ FEq(a, b)

\* the largest integer not above a finite a
FFloor(a) == a.n \div a.d

\* math.Sqrt: exact when a is the square of a rational, else rounded down to
\* a multiple of 1/a.d (positive whenever a is)
FSqrt(a) ==
    IF IsNaN(a) THEN NaN
    ELSE LET rn == ISqrt(a.n)
             rd == ISqrt(a.d)
         IN  IF rn * rn = a.n /\ rd * rd = a.d THEN Q(rn, rd)
             ELSE Q(ISqrt(a.n * a.d), a.d)

\* an accumulator that adds the signed components instead of the distance
FSignedSum(a, b) == FAdd(a, b)

FAbs(a) == IF IsNaN(a) THEN NaN ELSE Q(Abs(a.n), a.d)

\* math.Hypot: p * Sqrt(1 + (q/p)^2) with p the larger magnitude
FHypot(a, b) ==
    IF IsNaN(a) \/ IsNaN(b) THEN NaN
    ELSE LET p == IF FLt(FAbs(a), FAbs(b)) THEN FAbs(b) ELSE FAbs(a)
             q == IF FLt(FAbs(a), FAbs(b)) THEN FAbs(a) ELSE FAbs(b)
             r == FDiv(q, p)
         IN  IF FEq(p, Zero) THEN Zero
             ELSE FMul(p, FSqrt(FAdd(One, FMul(r, r))))

----------------------------------------------------------------------------
(* DetectEvents: thresholds, in hundredths of the source's unit           *)
(* (defaultEventThresholds, src/track/eventdetection.go:26-43)            *)

StopSpeed == 100
CrashDecel == -800
CrashMinPreSpeed == 500
CollisionAccelMag == 1200
CollisionSpeedDrop == 200
ResetMinDuration == 150
ResetVelEpsilon == 25
DedupeWindow == 100
RumbleThreshold == 80
PuddleThreshold == 50
DriftSlipAngle == 30
DriftMinSpeed == 800
TractionSlip == 40
\* TractionThrottle is compared as int(th.TractionThrottle): a raw integer
TractionThrottle == 120

EventTypes == {"position_gain", "position_loss", "pole_loss", "pole_gain",
               "reset", "crash", "collision", "rumble", "puddle", "drift",
               "traction"}

\* okToEmit with the window compared strictly
okToEmitStrict(lastTime, now, window) ==
    IF lastTime = 0 THEN TRUE ELSE now - lastTime > window

\* okToEmit(lastTime, now, window)
okToEmit(lastTime, now, window) ==
    IF lastTime = 0 THEN TRUE ELSE now - lastTime >= window

\* speedMPS(s)
speedMPS(s) ==
    IF s.Speed > 0 THEN s.Speed
    ELSE IF s.SpeedMPS > 0 THEN s.SpeedMPS
    ELSE 0

\* models.Event; At is a history field (the loop index at which the event
\* was appended), kept to state when an event was detected
Event(index, time, type, at) ==
    [Index |-> index, Time |-> time, Type |-> type, At |-> at]


\* models.Sample restricted to the fields DetectEvents reads; the four
\* per-wheel values are tuples <<FL, FR, RL, RR>>
BaseSample ==
    [Time |-> 0, IsRaceOn |-> 1, RacePosition |-> 0,
     Speed |-> 2000, SpeedMPS |-> 0,
     AccelX |-> 0, AccelY |-> 0, AccelZ |-> 0,
     VelX |-> 2000, VelZ |-> 0,
     WheelOnRumble |-> <<0, 0, 0, 0>>,
     WheelInPuddle |-> <<0, 0, 0, 0>>,
     TireSlipAngle |-> <<0, 0, 0, 0>>,
     TireCombinedSlip |-> <<0, 0, 0, 0>>,
     ThrottleRaw |-> 0]

\* Sample kinds the detector is driven with: steady driving, a dead stop,
\* an impact that halves the speed, a rumble strip, a puddle
KindCruise == BaseSample
KindStop == [BaseSample EXCEPT !.Speed = 0, !.VelX = 0]
KindHit == [BaseSample EXCEPT !.Speed = 1000, !.VelX = 1000, !.AccelX = 1200]
KindRumble == [BaseSample EXCEPT !.WheelOnRumble = <<50, 50, 0, 0>>]
KindPuddle == [BaseSample EXCEPT !.WheelInPuddle = <<50, 0, 0, 0>>]

DedupeKinds == {KindCruise, KindStop, KindHit, KindRumble, KindPuddle}

\* timestamp differences between consecutive samples (hundredths of a second)
TimeDeltas == {0, 50, 100}

\* timestamps of the first sample; 0 is what the loader yields for an
\* unparsable timestamp cell (getFloat, src/main.go:1059)
StartTimes == {0, 100}

\* i is the 0-based index of cur in the source; samples[i] is the previous
\* sample because TLA+ sequences are 1-based
EmitIfOk(st, type, index, time, now, i) ==
    IF okToEmit(st.last[type], now, DedupeWindow)
    THEN [ev |-> Append(st.ev, Event(index, time, type, i)),
          last |-> [st.last EXCEPT ![type] = now]]
    ELSE st

\* lines 86-89
StepDt(prev, cur) ==
    LET dt == cur.Time - prev.Time
    IN  IF dt <= 0 \/ dt > 100 THEN 0 ELSE dt

\* the previous sample's position taken as it is, zero or not
LastPosUnchecked(prev, lp) == prev.RacePosition

\* lines 82-84
LastPosBefore(prev, lp) == IF prev.RacePosition > 0 THEN prev.RacePosition ELSE lp

\* lines 103
PositionChanged(prev, cur, lp) ==
    /\ LastPosBefore(prev, lp) > 0
    /\ cur.RacePosition > 0
    /\ cur.RacePosition # LastPosBefore(prev, lp)

\* lines 102-128
PositionEvents(st, prev, cur, lp, i) ==
    LET lp1 == LastPosBefore(prev, lp)
        evType == IF cur.RacePosition - lp1 < 0 THEN "position_gain"
                  ELSE "position_loss"
        s1 == EmitIfOk(st, evType, i, cur.Time, cur.Time, i)
        s2 == IF lp1 = 1 /\ cur.RacePosition > 1
              THEN EmitIfOk(s1, "pole_loss", i, cur.Time, cur.Time, i)
              ELSE IF lp1 > 1 /\ cur.RacePosition = 1
              THEN EmitIfOk(s1, "pole_gain", i, cur.Time, cur.Time, i)
              ELSE s1
    IN  IF PositionChanged(prev, cur, lp) THEN s2 ELSE st

\* line 131: velMag < th.ResetVelEpsilon && speedCur < th.StopSpeed
NearZero(cur) ==
    /\ Hypot(cur.VelX, cur.VelZ) < ResetVelEpsilon
    /\ speedMPS(cur) < StopSpeed

\* line 151; decel = dSpeed/dt when dt > 0, else 0, and decel <= CrashDecel
\* is compared after multiplying both sides by dt
CrashTrigger(prev, cur) ==
    LET dt == StepDt(prev, cur)
        dSpeed == speedMPS(cur) - speedMPS(prev)
    IN  /\ speedMPS(prev) > CrashMinPreSpeed
        /\ speedMPS(cur) < StopSpeed
        /\ IF dt > 0 THEN dSpeed * 100 <= CrashDecel * dt ELSE 0 <= CrashDecel

\* line 159
CollisionTrigger(prev, cur) ==
    /\ ISqrt(cur.AccelX * cur.AccelX + cur.AccelY * cur.AccelY
             + cur.AccelZ * cur.AccelZ) >= CollisionAccelMag
    /\ speedMPS(cur) - speedMPS(prev) < -CollisionSpeedDrop
    /\ speedMPS(cur) >= StopSpeed

\* lines 167-168
RumbleTrigger(cur) == SumSeq(cur.WheelOnRumble) >= RumbleThreshold

\* lines 174-175
PuddleTrigger(cur) == SumSeq(cur.WheelInPuddle) >= PuddleThreshold

\* lines 181-182; the average over four wheels is compared as sum >= 4 * th
DriftCond(cur) ==
    /\ Abs(cur.TireSlipAngle[1]) + Abs(cur.TireSlipAngle[2])
       + Abs(cur.TireSlipAngle[3]) + Abs(cur.TireSlipAngle[4])
       >= 4 * DriftSlipAngle
    /\ speedMPS(cur) >= DriftMinSpeed

\* lines 193-194
TractionCond(cur) ==
    /\ SumSeq(cur.TireCombinedSlip) >= 4 * TractionSlip
    /\ cur.ThrottleRaw >= TractionThrottle
    /\ speedMPS(cur) >= StopSpeed

\* a condition that fires on every sample on which it holds
LevelTriggered(cond, active) == cond

\* lines 183, 195: the condition holds and did not hold on the sample before
RisingEdge(cond, active) == cond /\ ~active

\* the for loop's exit test and the three early exits of its body
\* (lines 63-80): "skip" is continue, "stop" is break
RaceGate(prev, cur, seen) ==
    IF cur.IsRaceOn = 0 /\ ~seen THEN "skip"
    ELSE IF cur.IsRaceOn = 0 THEN "stop"
    ELSE IF prev.IsRaceOn = 0 THEN "skip"
    ELSE "eval"

\* One iteration of the loop of DetectEvents on the next sample cur
\* (lines 63-203)
DetectEventsIter(cur) ==
    LET i == Len(samples)
        prev == samples[i]
        gate == RaceGate(prev, cur, seenOn)
        dt == StepDt(prev, cur)
        st0 == [ev |-> events, last |-> lastOfType]
        st1 == PositionEvents(st0, prev, cur, lastPos, i)
        \* reset (lines 131-148)
        nz == NearZero(cur)
        rs1 == IF nz /\ resetStart = -1 THEN i ELSE resetStart
        ra1 == IF nz /\ resetStart = -1 THEN dt ELSE resetAccum + dt
        fire == nz /\ ra1 >= ResetMinDuration
        st2 == IF fire
               THEN EmitIfOk(st1, "reset", rs1, samples[rs1 + 1].Time, cur.Time, i)
               ELSE st1
        st3 == IF CrashTrigger(prev, cur)
               THEN EmitIfOk(st2, "crash", i, cur.Time, cur.Time, i) ELSE st2
        st4 == IF CollisionTrigger(prev, cur)
               THEN EmitIfOk(st3, "collision", i, cur.Time, cur.Time, i) ELSE st3
        st5 == IF RumbleTrigger(cur)
               THEN EmitIfOk(st4, "rumble", i, cur.Time, cur.Time, i) ELSE st4
        st6 == IF PuddleTrigger(cur)
               THEN EmitIfOk(st5, "puddle", i, cur.Time, cur.Time, i) ELSE st5
        st7 == IF RisingEdge(DriftCond(cur), driftActive)
               THEN EmitIfOk(st6, "drift", i, cur.Time, cur.Time, i) ELSE st6
        st8 == IF RisingEdge(TractionCond(cur), tractionActive)
               THEN EmitIfOk(st7, "traction", i, cur.Time, cur.Time, i) ELSE st7
    IN  /\ samples' = Append(samples, cur)
        /\ seenOn' = (seenOn \/ cur.IsRaceOn # 0)
        /\ pc' = IF gate = "stop" THEN "done" ELSE "scan"
        /\ IF gate = "eval"
           THEN /\ events' = st8.ev
                /\ lastOfType' = st8.last
                /\ lastPos' = IF PositionChanged(prev, cur, lastPos)
                              THEN cur.RacePosition
                              ELSE LastPosBefore(prev, lastPos)
                /\ resetStart' = IF nz /\ ~fire THEN rs1 ELSE -1
                /\ resetAccum' = IF nz /\ ~fire THEN ra1 ELSE 0
                /\ driftActive' = DriftCond(cur)
                /\ tractionActive' = TractionCond(cur)
           ELSE UNCHANGED <<events, lastOfType, lastPos, resetStart,
                            resetAccum, driftActive, tractionActive>>

\* DetectEvents entry (lines 47-61): the locals before the loop
DetectEventsEntry ==
    /\ events = <<>>
    /\ lastOfType = [t \in EventTypes |-> 0]
    /\ resetStart = -1
    /\ resetAccum = 0
    /\ seenOn = FALSE
    /\ driftActive = FALSE
    /\ tractionActive = FALSE
    /\ lastPos = -1
    /\ pc = "scan"

\* DetectEvents not running
IdleEvents ==
    /\ samples = <<>>
    /\ DetectEventsEntry

InitEvents ==
    /\ \E t \in StartTimes : samples = <<[KindCruise EXCEPT !.Time = t]>>
    /\ DetectEventsEntry
    /\ IdleOthersEv

\* the loop takes the next sample of the input
DetectEventsStep ==
    /\ pc = "scan"
    /\ Len(samples) < MaxSamples
    /\ \E k \in DedupeKinds, d \in TimeDeltas :
          DetectEventsIter([k EXCEPT !.Time = Last(samples).Time + d])
    /\ UNCHANGED notEv

\* the input is exhausted (i = len(samples), or len(samples) < 2 at line 49)
DetectEventsReturn ==
    /\ pc = "scan"
    /\ pc' = "done"
    /\ UNCHANGED <<samples, events, lastOfType, resetStart, resetAccum,
                   seenOn, driftActive, tractionActive, lastPos>>
    /\ UNCHANGED notEv

NextEvents == DetectEventsStep \/ DetectEventsReturn

SpecEvents == InitEvents /\ [][NextEvents]_vars

\* Sessions with pre-race and post-race data: a sample with the race-active
\* flag off, and longer inputs so that a standstill can outlast several
\* reset durations
KindOff == [BaseSample EXCEPT !.IsRaceOn = 0]

RaceKinds == {KindCruise, KindStop, KindRumble, KindOff}

RaceTimeDeltas == {50, 100}

MaxRaceSamples == 5

InitRace ==
    /\ \E t \in StartTimes, k \in {KindCruise, KindOff} :
          samples = <<[k EXCEPT !.Time = t]>>
    /\ DetectEventsEntry
    /\ IdleOthersEv

\* the loop takes the next sample of a session with race-off data
DetectEventsRaceStep ==
    /\ pc = "scan"
    /\ Len(samples) < MaxRaceSamples
    /\ \E k \in RaceKinds, d \in RaceTimeDeltas :
          DetectEventsIter([k EXCEPT !.Time = Last(samples).Time + d])
    /\ UNCHANGED notEv

NextRace == DetectEventsRaceStep \/ DetectEventsReturn

\* Sessions with drifting and wheelspin: all four tyres at the drift slip
\* angle (two of them negative), and all four at the traction slip under
\* throttle
KindDrift == [BaseSample EXCEPT !.TireSlipAngle = <<-30, 30, -30, 30>>]
KindSpin == [BaseSample EXCEPT !.TireCombinedSlip = <<40, 40, 40, 40>>,
                               !.ThrottleRaw = 120]

SlipKinds == {KindCruise, KindDrift, KindSpin, KindOff}

\* a quarter of the dedupe window, and the whole window
SlipTimeDeltas == {25, 100}

\* the loop takes the next sample of a session with drifting and wheelspin
DetectEventsSlipStep ==
    /\ pc = "scan"
    /\ Len(samples) < MaxRaceSamples
    /\ \E k \in SlipKinds, d \in SlipTimeDeltas :
          DetectEventsIter([k EXCEPT !.Time = Last(samples).Time + d])
    /\ UNCHANGED notEv

NextSlip == DetectEventsSlipStep \/ DetectEventsReturn

\* Sessions with a race position: unknown (0), first, second or third
PositionKinds ==
    {[KindCruise EXCEPT !.RacePosition = p] : p \in 0..3} \cup {KindOff}

PositionTimeDeltas == {50, 100}

InitPosition ==
    /\ \E t \in StartTimes, k \in PositionKinds :
          samples = <<[k EXCEPT !.Time = t]>>
    /\ DetectEventsEntry
    /\ IdleOthersEv

\* the loop takes the next sample of a session with race positions
DetectEventsPositionStep ==
    /\ pc = "scan"
    /\ Len(samples) < MaxSamples
    /\ \E k \in PositionKinds, d \in PositionTimeDeltas :
          DetectEventsIter([k EXCEPT !.Time = Last(samples).Time + d])
    /\ UNCHANGED notEv

NextPosition == DetectEventsPositionStep \/ DetectEventsReturn

SpecPosition == InitPosition /\ [][NextPosition]_vars

SpecSlip == InitRace /\ [][NextSlip]_vars

SpecRace == InitRace /\ [][NextRace]_vars


----------------------------------------------------------------------------
(* Properties of DetectEvents *)

\* the sample time at which event e was appended
DetectedAt(e) == samples[e.At + 1].Time

\* the positions in events of the events of one type appended before loop
\* index i
EarlierOfType(type, i) ==
    {k \in 1..Len(events) : events[k].Type = type /\ events[k].At < i}

SetMax(S) == CHOOSE m \in S : \A x \in S : x <= m

\* seenOn as the loop finds it on entering iteration i (0-based)
SeenOnBefore(i) == \E k \in 1..(i - 1) : samples[k + 1].IsRaceOn # 0

\* iteration i ran the detectors (it neither continued nor broke early)
Evaluated(i) == RaceGate(samples[i], samples[i + 1], SeenOnBefore(i)) = "eval"

LevelTrigger(type, prev, cur) ==
    CASE type = "crash" -> CrashTrigger(prev, cur)
      [] type = "collision" -> CollisionTrigger(prev, cur)
      [] type = "rumble" -> RumbleTrigger(cur)
      [] type = "puddle" -> PuddleTrigger(cur)

LevelTypes == {"crash", "collision", "rumble", "puddle"}

\* C4: any two events of the same type were detected at sample times at
\* least the dedupe window (1.0 s) apart.
C4_DedupeGap ==
    \A a, b \in 1..Len(events) :
        (a < b /\ events[a].Type = events[b].Type)
            => DetectedAt(events[b]) - DetectedAt(events[a]) >= DedupeWindow

\* C5: at every evaluated iteration where the trigger of a level-triggered
\* type holds and the previous emission of that type (if any) was detected
\* at least the dedupe window earlier, an event of that type is emitted at
\* that iteration.
C5_NoOverSuppression ==
    \A i \in 1..(Len(samples) - 1) : \A type \in LevelTypes :
        LET prior == EarlierOfType(type, i)
        IN  ( /\ Evaluated(i)
              /\ LevelTrigger(type, samples[i], samples[i + 1])
              /\ \/ prior = {}
                 \/ samples[i + 1].Time - DetectedAt(events[SetMax(prior)])
                        >= DedupeWindow )
            => \E k \in 1..Len(events) :
                   events[k].Type = type /\ events[k].At = i

\* C5 witness: two crashes detected a full window apart, both emitted, the
\* first at a non-zero time
C5_Witness ==
    \E a, b \in 1..Len(events) :
        /\ a < b
        /\ events[a].Type = "crash" /\ events[b].Type = "crash"
        /\ DetectedAt(events[a]) # 0
        /\ DetectedAt(events[b]) - DetectedAt(events[a]) >= DedupeWindow


\* the loop indices i (0-based, cur = samples[i]) iterated so far
LoopIndices == 1..(Len(samples) - 1)

\* iteration i ran the reset detector on a near-zero sample
InResetRun(i) == i \in LoopIndices /\ Evaluated(i) /\ NearZero(samples[i + 1])

\* a..b is a maximal run of consecutive evaluated near-zero samples
MaximalResetRun(a, b) ==
    /\ a <= b
    /\ \A i \in a..b : InResetRun(i)
    /\ ~InResetRun(a - 1)
    /\ ~InResetRun(b + 1)

\* the reset events appended while the loop was at an index in a..b
ResetsOfRun(a, b) ==
    {k \in 1..Len(events) : events[k].Type = "reset" /\ events[k].At \in a..b}

\* the duration the code accumulates over a..b
RunDuration(a, b) == SumSeq([j \in 1..(b - a + 1) |->
                               StepDt(samples[a + j - 1], samples[a + j])])

\* C15: every maximal run of consecutive evaluated near-zero samples yields
\* at most one reset event, exactly one once its accumulated duration reaches
\* 1.5 s, and that event carries the Index and Time of the first sample of
\* the run.
C15_OneResetPerRun ==
    \A a, b \in LoopIndices :
        MaximalResetRun(a, b) =>
            /\ Cardinality(ResetsOfRun(a, b)) <= 1
            /\ RunDuration(a, b) >= ResetMinDuration
                   => Cardinality(ResetsOfRun(a, b)) = 1
            /\ \A k \in ResetsOfRun(a, b) :
                   /\ events[k].Index = a
                   /\ events[k].Time = samples[a + 1].Time

\* the samples (0-based) of the stretch of race-on samples that ends with the
\* sample before i and that have a positive race position
KnownPositions(i) ==
    {j \in 0..(i - 1) :
        /\ samples[j + 1].RacePosition > 0
        /\ \A h \in j..(i - 1) : samples[h + 1].IsRaceOn # 0}

\* the last known positive position before sample i, -1 if none
LastKnownPosition(i) ==
    IF KnownPositions(i) = {} THEN -1
    ELSE samples[SetMax(KnownPositions(i)) + 1].RacePosition

\* the type is not inside its dedupe window at sample i
OutsideWindow(type, i) ==
    \/ EarlierOfType(type, i) = {}
    \/ samples[i + 1].Time - DetectedAt(events[SetMax(EarlierOfType(type, i))])
           >= DedupeWindow

EmittedAt(type, i) ==
    \E k \in 1..Len(events) :
        /\ events[k].Type = type /\ events[k].At = i
        /\ events[k].Index = i /\ events[k].Time = samples[i + 1].Time

\* C26: at every evaluated step where the current position (> 0) differs
\* from the last known positive position, a position_gain event is emitted
\* when the new position is lower and a position_loss event when it is
\* higher, unless that type is inside its dedupe window; pole_loss is emitted
\* only where the previous position was 1 and the new one is greater, and
\* pole_gain only where the previous was greater than 1 and the new one is 1.
C26_PositionEvents ==
    /\ \A i \in LoopIndices :
          ( /\ Evaluated(i)
            /\ samples[i + 1].RacePosition > 0
            /\ LastKnownPosition(i) > 0
            /\ samples[i + 1].RacePosition # LastKnownPosition(i) )
              => /\ ( samples[i + 1].RacePosition < LastKnownPosition(i)
                       /\ OutsideWindow("position_gain", i) )
                        => EmittedAt("position_gain", i)
                 /\ ( samples[i + 1].RacePosition > LastKnownPosition(i)
                       /\ OutsideWindow("position_loss", i) )
                        => EmittedAt("position_loss", i)
    /\ \A k \in 1..Len(events) :
          /\ events[k].Type = "pole_loss"
                => /\ LastKnownPosition(events[k].At) = 1
                   /\ samples[events[k].At + 1].RacePosition > 1
          /\ events[k].Type = "pole_gain"
                => /\ LastKnownPosition(events[k].At) > 1
                   /\ samples[events[k].At + 1].RacePosition = 1

\* C26 witness: the position was unknown on the previous sample, the car
\* took the lead from the last known position and both events were emitted
C26_Witness ==
    \E i \in LoopIndices :
        /\ Evaluated(i)
        /\ samples[i].RacePosition = 0
        /\ LastKnownPosition(i) > 1
        /\ EmittedAt("position_gain", i)
        /\ EmittedAt("pole_gain", i)

SlipTypes == {"drift", "traction"}

SlipCond(type, cur) == IF type = "drift" THEN DriftCond(cur) ELSE TractionCond(cur)

\* iteration i was evaluated on a sample that satisfies the condition of type
InSlipRun(type, i) ==
    i \in LoopIndices /\ Evaluated(i) /\ SlipCond(type, samples[i + 1])

\* the events of one type appended while the loop was at an index in a..b
EventsOfTypeIn(type, a, b) ==
    {k \in 1..Len(events) : events[k].Type = type /\ events[k].At \in a..b}

\* C25: within every maximal run of consecutive evaluated samples that
\* satisfy the drift (traction-loss) condition at most one event of that type
\* is emitted, and only at the first sample of the run; between two events
\* of that type lies an evaluated sample on which the condition is false.
C25_SlipEventsEdgeTriggered ==
    \A type \in SlipTypes :
        /\ \A a, b \in LoopIndices :
              ( /\ a <= b
                /\ \A i \in a..b : InSlipRun(type, i)
                /\ ~InSlipRun(type, a - 1)
                /\ ~InSlipRun(type, b + 1) )
                  => /\ Cardinality(EventsOfTypeIn(type, a, b)) <= 1
                     /\ \A k \in EventsOfTypeIn(type, a, b) :
                           events[k].At = a /\ events[k].Index = a
        /\ \A k \in 1..Len(events) :
              events[k].Type = type => InSlipRun(type, events[k].At)
        /\ \A j, k \in 1..Len(events) :
              (j < k /\ events[j].Type = type /\ events[k].Type = type)
                  => \E i \in (events[j].At + 1)..(events[k].At - 1) :
                        Evaluated(i) /\ ~SlipCond(type, samples[i + 1])

\* C25 witness: a drift that lasts two evaluated samples gave one event, and
\* a second drift after a sample without drifting gave another
C25_Witness ==
    /\ Len(samples) = 5
    /\ InSlipRun("drift", 1) /\ InSlipRun("drift", 2)
    /\ ~DriftCond(samples[4])
    /\ InSlipRun("drift", 4)
    /\ Cardinality(EventsOfTypeIn("drift", 1, 4)) = 2

\* the first sample (0-based) with the race-active flag on, -1 if none
FirstRaceOn ==
    IF \E j \in 0..(Len(samples) - 1) : samples[j + 1].IsRaceOn # 0
    THEN CHOOSE j \in 0..(Len(samples) - 1) :
            /\ samples[j + 1].IsRaceOn # 0
            /\ \A h \in 0..(j - 1) : samples[h + 1].IsRaceOn = 0
    ELSE -1

\* the race-off samples (0-based) that follow a race-on sample
RaceOffAfterOn ==
    {j \in 0..(Len(samples) - 1) :
        /\ samples[j + 1].IsRaceOn = 0
        /\ FirstRaceOn # -1 /\ FirstRaceOn < j}

\* C16: no event has an Index before the first race-on sample, and none has
\* an Index at or after the first race-off sample that follows a race-on
\* sample, wherever the first race-on sample is (index 0 included).
C16_EventsWithinRace ==
    \A k \in 1..Len(events) :
        /\ FirstRaceOn # -1 /\ events[k].Index >= FirstRaceOn
        /\ \A j \in RaceOffAfterOn : events[k].Index < j


----------------------------------------------------------------------------
(* DetectOvertakes / detectPair (src/track/eventdetection.go:225-378)      *)
(*                                                                         *)
(* A MappedPoint is [Time, Lap, RelS, Den]: its relative arc length is the *)
(* fraction RelS / Den (Den = 1 for an input point, the time span of the   *)
(* bracketing samples for an interpolated one).  MasterX and MasterY are   *)
(* interpolated the same way as RelS, decide nothing, and are left out.    *)

\* sample times of a session lie on the grid 0..MaxT
MaxT == 3

RelSValues == 0..3

MappedPoint(t, lap, relS, den) == [Time |-> t, Lap |-> lap, RelS |-> relS, Den |-> den]

\* pointAtTimeMapped's binary search (lines 338-346), 0-based lo and hi
RECURSIVE BracketSearch(_, _, _, _)
BracketSearch(points, t, lo, hi) ==
    IF hi - lo > 1
    THEN LET mid == (hi + lo) \div 2
         IN  IF points[mid + 1].Time <= t
             THEN BracketSearch(points, t, mid, hi)
             ELSE BracketSearch(points, t, lo, mid)
    ELSE <<lo, hi>>

\* pointAtTimeMapped(points, t) for non-empty points (lines 328-360)
pointAtTimeMapped(points, t) ==
    IF t <= points[1].Time THEN points[1]
    ELSE IF t >= Last(points).Time THEN Last(points)
    ELSE LET br == BracketSearch(points, t, 0, Len(points) - 1)
             p1 == points[br[1] + 1]
             p2 == points[br[2] + 1]
             span == p2.Time - p1.Time
         IN  IF span <= 0 THEN p1
             ELSE MappedPoint(t, p1.Lap,
                              p1.RelS * span + (p2.RelS - p1.RelS) * (t - p1.Time),
                              span)

\* lapLengthsFromMapped(points)[lap]: the largest RelS seen on that lap, and
\* 0 (the map's zero value) when there is none or none is positive
lapLengthsFromMapped(points, lap) ==
    LET seen == {points[k].RelS : k \in {j \in 1..Len(points) : points[j].Lap = lap}}
    IN  IF seen = {} THEN 0
        ELSE Max(0, CHOOSE m \in seen : \A x \in seen : x <= m)

\* progressMapped(p, lapLen) as the fraction <<numerator, denominator>>
progressMapped(p, points) ==
    LET len0 == lapLengthsFromMapped(points, p.Lap)
        lenLap == IF len0 <= 0 THEN 1 ELSE len0
    IN  <<(p.Lap - 1) * lenLap * p.Den + p.RelS, lenLap * p.Den>>

\* lines 289-294: 1 when a is ahead, -1 when b is ahead, 0 on a tie
AheadAt(a, b, t) ==
    LET progA == progressMapped(pointAtTimeMapped(a, t), a)
        progB == progressMapped(pointAtTimeMapped(b, t), b)
    IN  IF progA[1] * progB[2] > progB[1] * progA[2] THEN 1
        ELSE IF progB[1] * progA[2] > progA[1] * progB[2] THEN -1
        ELSE 0

OvertakeEvent(src, tgt, t, p) ==
    [Source |-> src, Target |-> tgt, Time |-> t, Lap |-> p.Lap,
     RelS |-> p.RelS, Den |-> p.Den]

\* the merge loop of detectPair (lines 274-324); ia and ib are 0-based
RECURSIVE detectPairLoop(_, _, _, _, _, _)
detectPairLoop(a, b, ia, ib, prevAhead, out) ==
    IF ~(ia < Len(a) /\ ib < Len(b)) THEN out
    ELSE
    LET maxT == Min(Last(a).Time, Last(b).Time)
        t == Min(a[ia + 1].Time, b[ib + 1].Time)
        pa == pointAtTimeMapped(a, t)
        pb == pointAtTimeMapped(b, t)
        ahead == AheadAt(a, b, t)
        out1 == IF prevAhead # 0 /\ ahead # 0 /\ ahead # prevAhead
                THEN IF ahead > 0
                     THEN Append(out, OvertakeEvent("a", "b", t, pa))
                     ELSE Append(out, OvertakeEvent("b", "a", t, pb))
                ELSE out
        stepA == /\ ia + 1 < Len(a)
                 /\ (ib + 1 >= Len(b) \/ a[ia + 2].Time <= b[ib + 2].Time)
    IN  IF t > maxT THEN out
        ELSE IF stepA THEN detectPairLoop(a, b, ia + 1, ib, ahead, out1)
        ELSE detectPairLoop(a, b, ia, ib + 1, ahead, out1)

\* detectPair("a", "b", aPts, bPts)
detectPair(a, b) ==
    IF Len(a) = 0 \/ Len(b) = 0 THEN <<>>
    ELSE detectPairLoop(a, b, 0, 0, 0, <<>>)

\* the mapped points of one session that stays on lap 1: strictly increasing
\* sample times that begin and end with the grid, RelS non-decreasing
SessionTimes == {T \in SUBSET (0..MaxT) : 0 \in T /\ MaxT \in T}

RECURSIVE SortedTimes(_)
SortedTimes(T) ==
    IF T = {} THEN <<>>
    ELSE LET m == CHOOSE x \in T : \A y \in T : x <= y
         IN  <<m>> \o SortedTimes(T \ {m})

SessionPoints ==
    UNION { { [k \in 1..Cardinality(T) |->
                  MappedPoint(SortedTimes(T)[k], 1, r[k], 1)] :
              r \in {q \in [1..Cardinality(T) -> RelSValues] :
                        \A k \in 1..(Cardinality(T) - 1) : q[k] <= q[k + 1]} } :
            T \in SessionTimes }

IdleOthersOv ==
    IdleEvents /\ IdleLaps /\ IdleBuildTrack /\ IdleLapMetrics /\ IdleMaster /\ IdleMap /\ IdleRun

InitOvertakes ==
    /\ aPts \in SessionPoints
    /\ bPts \in SessionPoints
    /\ overtakes = <<>>
    /\ ovpc = "call"
    /\ IdleOthersOv

\* DetectOvertakes on the pair: the one call detectPair("a", "b", ...)
\* (lines 246-258; "a" < "b" is the only pair that passes line 250)
DetectOvertakes ==
    /\ ovpc = "call"
    /\ overtakes' = detectPair(aPts, bPts)
    /\ ovpc' = "done"
    /\ UNCHANGED <<aPts, bPts>>
    /\ UNCHANGED notOv

NextOvertakes == DetectOvertakes

SpecOvertakes == InitOvertakes /\ [][NextOvertakes]_vars


----------------------------------------------------------------------------
(* Properties of detectPair *)

\* every sample time of either session, in increasing order
MergedTimes == SortedTimes({aPts[k].Time : k \in 1..Len(aPts)}
                           \cup {bPts[k].Time : k \in 1..Len(bPts)})

\* who is ahead at the k-th merged sample time
AheadSign(k) == AheadAt(aPts, bPts, MergedTimes[k])

\* The two progress curves (linear between sample times) cross exactly once,
\* the session with sign `before` leading up to the crossing and the one
\* with sign `after` from it on.  The crossing lies at merged sample time c
\* (a tie there) or between c-1 and c; a tie on the very first or very last
\* sample time (start line, finish line) is not a crossing.
CrossOnce(before, after) ==
    LET n == Len(MergedTimes)
        lo == IF AheadSign(1) = 0 THEN 2 ELSE 1
        hi == IF AheadSign(n) = 0 THEN n - 1 ELSE n
    IN  \E c \in (lo + 1)..hi :
            /\ \A k \in lo..(c - 1) : AheadSign(k) = before
            /\ AheadSign(c) \in {0, after}
            /\ \A k \in (c + 1)..hi : AheadSign(k) = after
            /\ (AheadSign(c) = after \/ c + 1 <= hi)

\* C6: when the progress curves of two same-lap sessions cross exactly once,
\* detectPair returns exactly one overtake, Source the session ahead after
\* the crossing and Target the other.
C6_OneOvertakePerCrossing ==
    ovpc = "done" =>
        /\ CrossOnce(1, -1) =>
                 /\ Len(overtakes) = 1
                 /\ overtakes[1].Source = "b" /\ overtakes[1].Target = "a"
        /\ CrossOnce(-1, 1) =>
                 /\ Len(overtakes) = 1
                 /\ overtakes[1].Source = "a" /\ overtakes[1].Target = "b"


\* the two sessions share their sample times
SameSampleTimes ==
    /\ Len(aPts) = Len(bPts)
    /\ \A k \in 1..Len(aPts) : aPts[k].Time = bPts[k].Time

\* C29: for two sessions that stay on the same lap and share the same
\* strictly increasing sample times, if a's relative arc length is strictly
\* greater than b's at every sample, no overtake is emitted for the pair.
C29_NoOvertakeWithoutPass ==
    ( /\ ovpc = "done"
      /\ SameSampleTimes
      /\ \A k \in 1..Len(aPts) : aPts[k].RelS > bPts[k].RelS )
        => overtakes = <<>>

----------------------------------------------------------------------------
(* Lap segmentation.  A Trackpoint is [S, X, Y] in grid units (Theta is    *)
(* not read by any segmentation function).  Index variables i are the      *)
(* source's 0-based indices; points[i + 1] is the source's points[i].      *)

\* most trackpoints (and samples) in one session
MaxPoints == 4

Trackpoint(s, x, y, theta) == [S |-> s, X |-> x, Y |-> y, Theta |-> theta]

\* DetectLapsNearStart's loop (track.go:319-326)
RECURSIVE NearStartLoop(_, _, _, _, _, _)
NearStartLoop(points, r2, minLapDistance, i, indices, lastS) ==
    IF i >= Len(points) THEN indices
    ELSE LET dx == points[i + 1].X - points[1].X
             dy == points[i + 1].Y - points[1].Y
         IN  IF dx * dx + dy * dy <= r2 /\ points[i + 1].S - lastS >= minLapDistance
             THEN NearStartLoop(points, r2, minLapDistance, i + 1,
                                Append(indices, i), points[i + 1].S)
             ELSE NearStartLoop(points, r2, minLapDistance, i + 1, indices, lastS)

\* a segmenter that leaves the end-exclusive bound out
WithoutEndBound(idx, n) == idx

\* lines 328-330, 358-360: append the end-exclusive bound unless it is there
WithEndBound(idx, n) == IF Last(idx) # n THEN Append(idx, n) ELSE idx

\* DetectLapsNearStart(points, radius, minLapDistance) (track.go:306-333)
DetectLapsNearStart(points, radius, minLapDistance) ==
    IF Len(points) = 0 THEN <<>>
    ELSE WithEndBound(NearStartLoop(points, radius * radius, minLapDistance,
                                    1, <<0>>, points[1].S),
                      Len(points))

\* FindLapIndicesByDistanceWithMin's loop (track.go:350-356)
RECURSIVE ByDistanceLoop(_, _, _, _, _, _)
ByDistanceLoop(points, expectedLap, tolerance, minLapDistance, i, acc) ==
    IF i >= Len(points) THEN acc.result
    ELSE LET lapDist == points[i + 1].S - acc.lastS
         IN  IF lapDist >= expectedLap - tolerance /\ lapDist >= minLapDistance
             THEN ByDistanceLoop(points, expectedLap, tolerance, minLapDistance, i + 1,
                                 [result |-> Append(acc.result, i),
                                  lastS |-> points[i + 1].S])
             ELSE ByDistanceLoop(points, expectedLap, tolerance, minLapDistance,
                                 i + 1, acc)

\* FindLapIndicesByDistanceWithMin (track.go:342-363)
FindLapIndicesByDistanceWithMin(points, expectedLap, tolerance, minLapDistance) ==
    IF Len(points) < 2 THEN <<>>
    ELSE WithEndBound(ByDistanceLoop(points, expectedLap, tolerance, minLapDistance,
                                     1, [result |-> <<0>>, lastS |-> points[1].S]),
                      Len(points))

\* BuildEvenLapIdx's loop (part_002:22-27).  lapLen = totalDist / laps and
\* target = len(out) * lapLen, so p.S >= target is p.S * laps >= len(out) * totalDist
RECURSIVE EvenLoop(_, _, _, _)
EvenLoop(points, laps, i, out) ==
    IF i >= Len(points) THEN out
    ELSE IF points[i + 1].S * laps >= Len(out) * Last(points).S /\ Len(out) < laps
         THEN EvenLoop(points, laps, i + 1, Append(out, i))
         ELSE EvenLoop(points, laps, i + 1, out)

\* BuildEvenLapIdx without the final end-exclusive bound
BuildEvenLapIdxOpen(points, laps) ==
    IF laps < 1 \/ Len(points) = 0 THEN <<0, Len(points)>>
    ELSE IF Last(points).S <= 0 THEN <<0, Len(points)>>
    ELSE EvenLoop(points, laps, 0, <<0>>)

\* BuildEvenLapIdx(points, laps) (part_002:11-32)
BuildEvenLapIdx(points, laps) ==
    IF laps < 1 \/ Len(points) = 0 THEN <<0, Len(points)>>
    ELSE IF Last(points).S <= 0 THEN <<0, Len(points)>>
    ELSE WithEndBound(EvenLoop(points, laps, 0, <<0>>), Len(points))

\* the values of a sequence in non-decreasing order (sort.Float64s)
RECURSIVE SortFloat64s(_)
SortFloat64s(s) ==
    IF s = <<>> THEN <<>>
    ELSE LET m == CHOOSE q \in 1..Len(s) : \A j \in 1..Len(s) : s[q] <= s[j]
         IN  <<s[m]>> \o SortFloat64s(SubSeq(s, 1, m - 1) \o SubSeq(s, m + 1, Len(s)))

\* median(vals) (part_002:114-125), returned doubled so that it stays an
\* integer: median2(vals) = 2 * median(vals)
median2(vals) ==
    IF Len(vals) = 0 THEN 0
    ELSE LET c == SortFloat64s(vals)
             mid == Len(c) \div 2
         IN  IF Len(c) % 2 = 0 THEN c[mid] + c[mid + 1] ELSE 2 * c[mid + 1]

\* the length of the lap from posIdx[i-1] to posIdx[i] as BuildLapIdx
\* measures it (part_002:66-74, 81-89); i is the 0-based position in posIdx
SegLen(points, posIdx, i) ==
    LET start == posIdx[i]
        end == Min(posIdx[i + 1], Len(points))
    IN  points[end].S - points[start + 1].S

SegUsable(points, posIdx, i) == Min(posIdx[i + 1], Len(points)) > posIdx[i]

\* part_002:64-75
RECURSIVE LapLens(_, _, _)
LapLens(points, posIdx, i) ==
    IF i >= Len(posIdx) THEN <<>>
    ELSE (IF SegUsable(points, posIdx, i)
          THEN <<SegLen(points, posIdx, i)>> ELSE <<>>)
         \o LapLens(points, posIdx, i + 1)

\* part_002:80-93; segLen >= med*0.8 is 5 * segLen >= 2 * median2
RECURSIVE PruneLoop(_, _, _, _, _, _)
PruneLoop(points, posIdx, med2, minLapSpacing, i, filtered) ==
    IF i >= Len(posIdx) - 1 THEN filtered
    ELSE IF /\ SegUsable(points, posIdx, i)
            /\ 5 * SegLen(points, posIdx, i) >= 2 * med2
            /\ SegLen(points, posIdx, i) >= minLapSpacing
         THEN PruneLoop(points, posIdx, med2, minLapSpacing, i + 1,
                        Append(filtered, posIdx[i + 1]))
         ELSE PruneLoop(points, posIdx, med2, minLapSpacing, i + 1, filtered)

\* part_002:63-97
PruneShortLaps(points, posIdx, minLapSpacing) ==
    IF Len(posIdx) > 2 /\ Len(LapLens(points, posIdx, 1)) > 0
    THEN Append(PruneLoop(points, posIdx, median2(LapLens(points, posIdx, 1)),
                          minLapSpacing, 1, <<posIdx[1]>>),
                Last(posIdx))
    ELSE posIdx

\* part_002:99-101
TrimToLapCount(points, posIdx, laps, enforceLapCount) ==
    IF enforceLapCount /\ laps > 0 /\ Len(posIdx) - 1 > laps
    THEN Append(SubSeq(posIdx, 1, laps), Len(points))
    ELSE posIdx

\* BuildLapIdx (part_002:54-112).  lapLen*0.2 is exact because the expected
\* lap lengths of the model are multiples of 5
BuildLapIdx(points, laps, lapLen, lapTol, minLapSpacing, enforceLapCount, radius) ==
    LET rad == IF radius <= 0 THEN 10 ELSE radius
        posIdx == DetectLapsNearStart(points, rad, minLapSpacing)
        byDist == FindLapIndicesByDistanceWithMin(points, lapLen, lapTol,
                      Max(minLapSpacing, (lapLen * 2) \div 10))
    IN  IF Len(posIdx) >= 2
        THEN TrimToLapCount(points, PruneShortLaps(points, posIdx, minLapSpacing),
                            laps, enforceLapCount)
        ELSE IF lapLen > 0 /\ laps <= 1 /\ Len(byDist) >= 2 THEN byDist
        ELSE BuildEvenLapIdx(points, laps)

\* LapIdxFromTelemetry's loop (util.go:33-39) over the LapNumber column
RECURSIVE TelemetryLoop(_, _, _, _)
TelemetryLoop(nums, i, idx, last) ==
    IF i >= Len(nums) THEN idx
    ELSE IF nums[i + 1] >= last + 1
         THEN TelemetryLoop(nums, i + 1, Append(idx, i), nums[i + 1])
         ELSE TelemetryLoop(nums, i + 1, idx, last)

\* LapIdxFromTelemetry(samples) (util.go:27-47)
LapIdxFromTelemetry(nums) ==
    IF Len(nums) = 0 THEN <<>>
    ELSE LET idx == TelemetryLoop(nums, 1, <<0>>, nums[1])
         IN  IF Len(idx) < 2 THEN <<>> ELSE WithEndBound(idx, Len(nums))


\* the sessions the segmenter is driven with: the car starts at the origin
\* and each sample moves it one grid unit east, west or north, or leaves it
\* where it is; S is the running sum of the displacements
Moves == {<<1, 0>>, <<-1, 0>>, <<0, 1>>, <<0, 0>>}

RECURSIVE TrackOf(_)
TrackOf(moves) ==
    IF moves = <<>> THEN <<Trackpoint(0, 0, 0, 0)>>
    ELSE LET head == TrackOf(SubSeq(moves, 1, Len(moves) - 1))
             p == Last(head)
             m == Last(moves)
         IN  Append(head, Trackpoint(p.S + Abs(m[1]) + Abs(m[2]),
                                     p.X + m[1], p.Y + m[2], 0))

Tracks == UNION { {TrackOf(ms) : ms \in [1..n -> Moves]} : n \in 1..(MaxPoints - 1) }

LapNumberValues == {1, 2, 3}

LapNumberColumns == UNION { [1..n -> LapNumberValues] : n \in 1..MaxPoints }

\* parameter values of the segmentation functions (the flags of main.go:99-103)
LapCounts == 0..3
LapLengths == {0, 5}
LapTolerances == {3, 4}
MinLapSpacings == {0, 1, 2}
Radii == {0, 1}

IdleOthersLap ==
    IdleEvents /\ IdleOvertakes /\ IdleBuildTrack /\ IdleLapMetrics /\ IdleMaster /\ IdleMap /\ IdleRun

\* a session is given either by its reconstructed path or by the lap
\* counter its samples report
InitLaps ==
    /\ \/ trackPoints \in Tracks /\ lapNumbers = <<>>
       \/ trackPoints = <<>> /\ lapNumbers \in LapNumberColumns
    /\ lapFn = ""
    /\ lapArgs = NoArgs
    /\ lapIdx = <<>>
    /\ IdleOthersLap

CallDetectLapsNearStart ==
    /\ lapFn = "" /\ trackPoints # <<>>
    /\ \E radius \in Radii \ {0}, minLapDistance \in MinLapSpacings :
          /\ lapArgs' = [radius |-> radius, minLapDistance |-> minLapDistance]
          /\ lapIdx' = DetectLapsNearStart(trackPoints, radius, minLapDistance)
    /\ lapFn' = "DetectLapsNearStart"
    /\ UNCHANGED <<trackPoints, lapNumbers>>
    /\ UNCHANGED notLap

CallFindLapIndicesByDistanceWithMin ==
    /\ lapFn = "" /\ trackPoints # <<>>
    /\ \E expectedLap \in LapLengths, tolerance \in LapTolerances,
          minLapDistance \in MinLapSpacings :
          /\ lapArgs' = [expectedLap |-> expectedLap, tolerance |-> tolerance,
                         minLapDistance |-> minLapDistance]
          /\ lapIdx' = FindLapIndicesByDistanceWithMin(trackPoints, expectedLap,
                                                       tolerance, minLapDistance)
    /\ lapFn' = "FindLapIndicesByDistanceWithMin"
    /\ UNCHANGED <<trackPoints, lapNumbers>>
    /\ UNCHANGED notLap

CallBuildEvenLapIdx ==
    /\ lapFn = "" /\ trackPoints # <<>>
    /\ \E laps \in LapCounts :
          /\ lapArgs' = [laps |-> laps]
          /\ lapIdx' = BuildEvenLapIdx(trackPoints, laps)
    /\ lapFn' = "BuildEvenLapIdx"
    /\ UNCHANGED <<trackPoints, lapNumbers>>
    /\ UNCHANGED notLap

CallBuildLapIdx ==
    /\ lapFn = "" /\ trackPoints # <<>>
    /\ \E laps \in LapCounts, lapLen \in LapLengths, lapTol \in LapTolerances,
          minLapSpacing \in MinLapSpacings, enforceLapCount \in BOOLEAN,
          radius \in Radii :
          /\ lapArgs' = [laps |-> laps, lapLen |-> lapLen, lapTol |-> lapTol,
                         minLapSpacing |-> minLapSpacing,
                         enforceLapCount |-> enforceLapCount, radius |-> radius]
          /\ lapIdx' = BuildLapIdx(trackPoints, laps, lapLen, lapTol, minLapSpacing,
                                   enforceLapCount, radius)
    /\ lapFn' = "BuildLapIdx"
    /\ UNCHANGED <<trackPoints, lapNumbers>>
    /\ UNCHANGED notLap

CallLapIdxFromTelemetry ==
    /\ lapFn = "" /\ lapNumbers # <<>>
    /\ lapArgs' = NoArgs
    /\ lapIdx' = LapIdxFromTelemetry(lapNumbers)
    /\ lapFn' = "LapIdxFromTelemetry"
    /\ UNCHANGED <<trackPoints, lapNumbers>>
    /\ UNCHANGED notLap

NextLaps ==
    \/ CallDetectLapsNearStart
    \/ CallFindLapIndicesByDistanceWithMin
    \/ CallBuildEvenLapIdx
    \/ CallBuildLapIdx
    \/ CallLapIdxFromTelemetry

SpecLaps == InitLaps /\ [][NextLaps]_vars

----------------------------------------------------------------------------
(* Properties of the lap segmenter *)

\* the number of points (samples) of the session that was segmented
PointCount == IF trackPoints # <<>> THEN Len(trackPoints) ELSE Len(lapNumbers)

\* a valid boundary list for n points
ValidBoundaries(idx, n) ==
    /\ Len(idx) >= 2
    /\ idx[1] = 0
    /\ \A k \in 1..(Len(idx) - 1) : idx[k] < idx[k + 1]
    /\ Last(idx) = n

\* C1: for a session of at least 2 points, the boundary list returned by
\* every strategy (when it is non-nil) has at least 2 entries, starts at 0,
\* is strictly increasing and ends with the point count.
C1_BoundariesValid ==
    (lapFn \notin {"", "idle"} /\ PointCount >= 2 /\ lapIdx # <<>>)
        => ValidBoundaries(lapIdx, PointCount)

\* C1 witness: BuildLapIdx pruned or trimmed a proximity detection that had
\* found more than one lap
C1_Witness ==
    /\ lapFn = "BuildLapIdx"
    /\ Len(DetectLapsNearStart(trackPoints,
                               IF lapArgs.radius <= 0 THEN 10 ELSE lapArgs.radius,
                               lapArgs.minLapSpacing)) > 3
    /\ Len(lapIdx) = 3

\* the 0-based indices i >= 1 at which the lap counter is larger than at i-1
CounterIncreases(nums) ==
    SelectSeq([k \in 1..(Len(nums) - 1) |-> k], LAMBDA k : nums[k + 1] > nums[k])

\* C7: when the reported lap counter increases at least once,
\* LapIdxFromTelemetry returns 0, then exactly the indices at which
\* LapNumber[i] > LapNumber[i-1], then the sample count.
C7_BoundariesWhereCounterIncreases ==
    (lapFn = "LapIdxFromTelemetry" /\ CounterIncreases(lapNumbers) # <<>>)
        => lapIdx = <<0>> \o CounterIncreases(lapNumbers) \o <<Len(lapNumbers)>>

\* the first 0-based index whose arc length reaches k * total / laps
FirstReaching(k, laps) ==
    CHOOSE i \in 0..(Len(trackPoints) - 1) :
        /\ trackPoints[i + 1].S * laps >= k * Last(trackPoints).S
        /\ \A h \in 0..(i - 1) : trackPoints[h + 1].S * laps < k * Last(trackPoints).S

\* BuildEvenLapIdx returned for a lap count >= 1 and a track with S[0] = 0,
\* non-decreasing S and positive total distance
EvenSplitCalled ==
    /\ lapFn = "BuildEvenLapIdx"
    /\ lapArgs.laps >= 1
    /\ trackPoints[1].S = 0
    /\ \A i \in 1..(Len(trackPoints) - 1) : trackPoints[i].S <= trackPoints[i + 1].S
    /\ Last(trackPoints).S > 0

\* the boundaries of laps equal laps: 0, the first index reaching each
\* interior target, and the point count
EvenBoundaries(laps) ==
    /\ Len(lapIdx) = laps + 1
    /\ lapIdx[1] = 0
    /\ lapIdx[laps + 1] = Len(trackPoints)
    /\ \A k \in 1..(laps - 1) : lapIdx[k + 1] = FirstReaching(k, laps)

\* C20 as stated: BuildEvenLapIdx returns exactly L laps, the k-th interior
\* boundary being the first index whose arc length reaches k * total / L
\* (for L = 1 the boundaries are 0 and N).
C20_ExactlyLEvenLaps ==
    EvenSplitCalled => EvenBoundaries(lapArgs.laps)

\* C20, amended: the same, for the tracks on which the L - 1 interior targets
\* are first reached at L - 1 different indices.
C20_EvenLapsAtDistinctIndices ==
    ( /\ EvenSplitCalled
      /\ \A k \in 1..(lapArgs.laps - 2) :
            FirstReaching(k, lapArgs.laps) < FirstReaching(k + 1, lapArgs.laps) )
        => EvenBoundaries(lapArgs.laps)

\* C20 witness: a track split into three laps, the boundaries not one sample
\* apart throughout
C20_Witness ==
    /\ EvenSplitCalled
    /\ lapArgs.laps = 3
    /\ Len(lapIdx) = 4
    /\ FirstReaching(1, 3) < FirstReaching(2, 3)
    /\ Len(trackPoints) = MaxPoints


\* proximity detection found no lap crossing: the path never returns within
\* the radius of the start after the minimum spacing
NoCrossing(points, radius, minLapSpacing) ==
    NearStartLoop(points, radius * radius, minLapSpacing, 1, <<0>>, points[1].S) = <<0>>

\* the radius BuildLapIdx works with (part_002:55-57)
EffectiveRadius(radius) == IF radius <= 0 THEN 10 ELSE radius

\* C21: when proximity detection finds no lap crossing, BuildLapIdx returns
\* the boundaries of distance-threshold detection if an expected lap length
\* is supplied with lap count <= 1, and those of even-spacing segmentation
\* if no expected lap length is supplied.
C21_FallbackOrder ==
    ( /\ lapFn = "BuildLapIdx"
      /\ Len(trackPoints) >= 2
      /\ NoCrossing(trackPoints, EffectiveRadius(lapArgs.radius),
                    lapArgs.minLapSpacing) )
        => /\ (lapArgs.lapLen > 0 /\ lapArgs.laps <= 1)
                => lapIdx = FindLapIndicesByDistanceWithMin(trackPoints,
                                lapArgs.lapLen, lapArgs.lapTol,
                                Max(lapArgs.minLapSpacing, (lapArgs.lapLen * 2) \div 10))
           /\ lapArgs.lapLen = 0
                => lapIdx = BuildEvenLapIdx(trackPoints, lapArgs.laps)


----------------------------------------------------------------------------
(* BuildTrack (src/track/track.go:218-301): dead-reckoning path             *)
(* reconstruction                                                          *)

\* the constants of track.go:223-227, in seconds and metres per second
minDT == Q(2, 125)
maxDT == Q(1, 4)
minSpeed == Q(1, 10)

\* a clamp that answers an excessive value with the floor
clampToFloor(v, lo, hi) == IF FLt(v, lo) \/ FGt(v, hi) THEN lo ELSE v

\* clamp(v, min, max) (track.go:286-294)
clamp(v, min, max) ==
    IF FLt(v, min) THEN min
    ELSE IF FGt(v, max) THEN max
    ELSE v

\* cleanFloat(v, fallback) (track.go:296-301)
cleanFloat(v, fallback) == IF IsNaN(v) THEN fallback ELSE v

\* Headings.  A quarter turn is pi/2 with pi taken as 22/7; math.Cos and
\* math.Sin are taken at the start of the quarter turn the heading lies in,
\* where they are exactly 0, 1 or -1.
QuarterTurn == Q(11, 7)

Quadrant(theta) == FFloor(FDiv(theta, QuarterTurn)) % 4

Cos(theta) ==
    IF IsNaN(theta) THEN NaN
    ELSE CASE Quadrant(theta) = 0 -> One
           [] Quadrant(theta) = 2 -> Q(-1, 1)
           [] OTHER -> Zero

Sin(theta) ==
    IF IsNaN(theta) THEN NaN
    ELSE CASE Quadrant(theta) = 1 -> One
           [] Quadrant(theta) = 3 -> Q(-1, 1)
           [] OTHER -> Zero

\* math.Atan2(y, x) for a vector along an axis (the seeds of the model)
Atan2(y, x) ==
    IF IsNaN(y) \/ IsNaN(x) THEN NaN
    ELSE IF FGt(y, Zero) THEN QuarterTurn
    ELSE IF FLt(y, Zero) THEN FSub(Zero, QuarterTurn)
    ELSE IF FLt(x, Zero) THEN FAdd(QuarterTurn, QuarterTurn)
    ELSE Zero

\* the fields of models.Sample that BuildTrack reads or writes
TrackSample(time, speed, accelX, velX, velZ) ==
    [Time |-> time, Speed |-> speed, AccelX |-> accelX, VelX |-> velX,
     VelZ |-> velZ, SmoothAx |-> accelX]

\* a reconstructor that accepts a single sample
TooFewSamplesOne(ss) == Len(ss) < 1

\* track.go:219
TooFewSamples(ss) == Len(ss) < 2

\* the state before the loop, the cleaned acceleration of the first sample
\* stored in AccelX as well
BuildTrackEntryCleaned(ss) ==
    [samples |-> [ss EXCEPT ![1].SmoothAx = cleanFloat(ss[1].AccelX, Zero),
                            ![1].AccelX = cleanFloat(ss[1].AccelX, Zero)],
     x |-> Zero, y |-> Zero, dist |-> Zero,
     theta |-> cleanFloat(Atan2(ss[1].VelZ, ss[1].VelX), Zero),
     track |-> <<Trackpoint(Zero, Zero, Zero,
                            cleanFloat(Atan2(ss[1].VelZ, ss[1].VelX), Zero))>>]

\* the state before the loop (track.go:229-243)
BuildTrackEntry(ss) ==
    [samples |-> [ss EXCEPT ![1].SmoothAx = cleanFloat(ss[1].AccelX, Zero)],
     x |-> Zero, y |-> Zero, dist |-> Zero,
     theta |-> cleanFloat(Atan2(ss[1].VelZ, ss[1].VelX), Zero),
     track |-> <<Trackpoint(Zero, Zero, Zero,
                            cleanFloat(Atan2(ss[1].VelZ, ss[1].VelX), Zero))>>]

\* the loop body for the 0-based index i (track.go:246-280)
BuildTrackIter(st, i) ==
    LET prev == st.samples[i]
        cur == st.samples[i + 1]
        dt == clamp(cleanFloat(FSub(cur.Time, prev.Time), minDT), minDT, maxDT)
        curAccel == cleanFloat(cur.AccelX, Zero)
        smoothAx == FAdd(FMul(prev.SmoothAx, Q(85, 100)), FMul(curAccel, Q(15, 100)))
        cleaned == cleanFloat(cur.Speed, prev.Speed)
        speed == IF FLt(cleaned, minSpeed) THEN minSpeed ELSE cleaned
        yawRate == IF FGt(speed, Q(2, 1)) THEN FDiv(smoothAx, speed) ELSE Zero
        theta == FAdd(st.theta, FMul(yawRate, dt))
        dx == FMul(FMul(Cos(theta), speed), dt)
        dy == FMul(FMul(Sin(theta), speed), dt)
        x == FAdd(st.x, dx)
        y == FAdd(st.y, dy)
        dist == FAdd(st.dist, FHypot(dx, dy))
    IN  [samples |-> [st.samples EXCEPT ![i + 1].SmoothAx = smoothAx],
         x |-> x, y |-> y, dist |-> dist, theta |-> theta,
         track |-> Append(st.track, Trackpoint(dist, x, y, theta))]

RECURSIVE BuildTrackLoop(_, _)
BuildTrackLoop(st, i) ==
    IF i >= Len(st.samples) THEN st ELSE BuildTrackLoop(BuildTrackIter(st, i), i + 1)

\* BuildTrack(samples): the returned track and error, and the samples slice
\* as the call leaves it
BuildTrack(ss) ==
    IF TooFewSamples(ss)
    THEN [track |-> <<>>, err |-> TRUE, samples |-> ss]
    ELSE LET st == BuildTrackLoop(BuildTrackEntry(ss), 1)
         IN  [track |-> st.track, err |-> FALSE, samples |-> st.samples]

\* the sessions BuildTrack is driven with.  Timestamps: equal, 0.1 s and
\* 0.4 s apart (in either order)
TrackTimes == {Zero, Q(1, 10), Q(2, 5)}

\* speed, lateral acceleration and velocity vector of a sample: cornering,
\* straight on with unreadable acceleration, standing, with unreadable speed
TrackMotions ==
    { <<Q(5, 2), Q(40, 1), One, Zero>>,
      <<Q(5, 2), NaN, Zero, One>>,
      <<Zero, Q(40, 1), Zero, Zero>>,
      <<NaN, Zero, NaN, NaN>> }

\* ... or a cornering sample whose timestamp is not a number
TrackSamples ==
    { TrackSample(t, m[1], m[2], m[3], m[4]) : t \in TrackTimes, m \in TrackMotions }
        \cup { TrackSample(NaN, Q(5, 2), Q(40, 1), One, Zero) }

TrackInputs == UNION { [1..n -> TrackSamples] : n \in 0..MaxTrackSamples }

IdleOthersBt ==
    IdleEvents /\ IdleOvertakes /\ IdleLaps /\ IdleLapMetrics /\ IdleMaster /\ IdleMap /\ IdleRun

InitBuildTrack ==
    /\ btSamples \in TrackInputs
    /\ btTrack = <<>>
    /\ btErr = FALSE
    /\ btpc = "call"
    /\ IdleOthersBt

CallBuildTrack ==
    /\ btpc = "call"
    /\ LET ret == BuildTrack(btSamples)
       IN  /\ btSamples' = ret.samples
           /\ btTrack' = ret.track
           /\ btErr' = ret.err
    /\ btpc' = "done"
    /\ UNCHANGED notBt

NextBuildTrack == CallBuildTrack

SpecBuildTrack == InitBuildTrack /\ [][NextBuildTrack]_vars

----------------------------------------------------------------------------
(* Properties of BuildTrack *)

\* the fields of a sample other than SmoothAx
InputFields == {"Time", "Speed", "AccelX", "VelX", "VelZ"}

\* C30 as stated: BuildTrack leaves its input unchanged, every field of every
\* input sample (SmoothAx included) has its value of before the call, on the
\* success and on the error path.
C30_InputUnchanged ==
    [][btpc = "call" => btSamples' = btSamples]_vars

\* C30, amended: BuildTrack leaves every field other than SmoothAx of every
\* input sample unchanged, and on the error path SmoothAx as well.
C30_OnlySmoothAxWritten ==
    [][btpc = "call" =>
          /\ Len(btSamples') = Len(btSamples)
          /\ \A i \in 1..Len(btSamples) : \A f \in InputFields :
                btSamples'[i][f] = btSamples[i][f]
          /\ btErr' => btSamples' = btSamples]_vars

\* C30 witness: BuildTrack succeeded and a sample's SmoothAx is no longer
\* the acceleration it was loaded with
C30_Witness ==
    /\ btpc = "done"
    /\ ~btErr
    /\ \E i \in 1..Len(btSamples) : btSamples[i].SmoothAx # btSamples[i].AccelX

\* C2: BuildTrack returns an error and no trackpoints for fewer than 2
\* samples, and otherwise exactly one trackpoint per input sample.
C2_ErrorOrOnePointPerSample ==
    btpc = "done" =>
        IF Len(btSamples) < 2
        THEN btErr /\ btTrack = <<>>
        ELSE ~btErr /\ Len(btTrack) = Len(btSamples)

\* C2 witness: both outcomes are returned, here the success with a track as
\* long as the longest input
C2_Witness ==
    /\ btpc = "done"
    /\ ~btErr
    /\ Len(btSamples) = MaxTrackSamples
    /\ Len(btTrack) = MaxTrackSamples

FiniteInput ==
    \A i \in 1..Len(btSamples) : ~IsNaN(btSamples[i].Speed) /\ ~IsNaN(btSamples[i].Time)

\* the square of the Euclidean distance between two trackpoints
Displacement2(p, q) ==
    FAdd(FMul(FSub(q.X, p.X), FSub(q.X, p.X)), FMul(FSub(q.Y, p.Y), FSub(q.Y, p.Y)))

\* C3: for at least 2 samples with finite speeds and timestamps the track
\* starts with S = 0 at the origin, S is non-decreasing, and each step adds
\* exactly the Euclidean displacement between the two consecutive positions.
C3_ArcLengthIsRunningDisplacement ==
    (btpc = "done" /\ Len(btSamples) >= 2 /\ FiniteInput) =>
        /\ btTrack[1].S = Zero /\ btTrack[1].X = Zero /\ btTrack[1].Y = Zero
        /\ \A i \in 1..(Len(btTrack) - 1) :
              /\ FLe(btTrack[i].S, btTrack[i + 1].S)
              /\ FEq(FMul(FSub(btTrack[i + 1].S, btTrack[i].S),
                          FSub(btTrack[i + 1].S, btTrack[i].S)),
                     Displacement2(btTrack[i], btTrack[i + 1]))

\* C3 witness: a track of three points that turned a corner, from samples
\* one of which has an unreadable lateral acceleration
C3_Witness ==
    /\ btpc = "done"
    /\ FiniteInput
    /\ Len(btTrack) = 3
    /\ \E i \in 1..3 : IsNaN(btSamples[i].AccelX)
    /\ btTrack[3].X # Zero
    /\ btTrack[3].Y # Zero

FinitePoint(p) == ~IsNaN(p.S) /\ ~IsNaN(p.X) /\ ~IsNaN(p.Y) /\ ~IsNaN(p.Theta)

TimeDifference(i) == FSub(btSamples[i + 1].Time, btSamples[i].Time)

\* the elapsed time the claim states for a timestamp difference d
ClaimedElapsed(d) ==
    IF ~IsNaN(d) /\ FLe(minDT, d) /\ FLe(d, maxDT) THEN d ELSE minDT

\* ... and as amended: an excessive difference counts as the ceiling
AmendedElapsed(d) ==
    IF ~IsNaN(d) /\ FLe(minDT, d) /\ FLe(d, maxDT) THEN d
    ELSE IF ~IsNaN(d) /\ FGt(d, maxDT) THEN maxDT
    ELSE minDT

\* step i advances the arc length by the speed of sample i + 1, raised to
\* minSpeed, times the elapsed time dt
AdvancesBy(i, dt) ==
    LET speed == btSamples[i + 1].Speed
        used == IF FLt(speed, minSpeed) THEN minSpeed ELSE speed
    IN  FEq(FSub(btTrack[i + 1].S, btTrack[i].S), FMul(used, dt))

\* the steps whose own speed is finite and that start from a finite point
MeasuredSteps ==
    { i \in 1..(Len(btTrack) - 1) :
        ~IsNaN(btSamples[i + 1].Speed) /\ FinitePoint(btTrack[i]) }

\* C14 as claimed: the elapsed time of a step is the timestamp difference
\* when that lies in [0.016 s, 0.25 s] and the floor 0.016 s in every other
\* case, an excessive difference included.
C14_ElapsedIsDifferenceOrFloor ==
    btpc = "done" =>
        \A i \in MeasuredSteps : AdvancesBy(i, ClaimedElapsed(TimeDifference(i)))

\* C14 as amended: the elapsed time of a step is the timestamp difference
\* when that lies in [0.016 s, 0.25 s], the floor 0.016 s when it is too
\* small or not finite, and the ceiling 0.25 s when it is excessive.
C14_ElapsedIsClampedDifference ==
    btpc = "done" =>
        \A i \in MeasuredSteps : AdvancesBy(i, AmendedElapsed(TimeDifference(i)))

\* a step with an excessive timestamp difference that advanced by the speed
\* times the ceiling
C14_Witness ==
    /\ btpc = "done"
    /\ \E i \in MeasuredSteps :
          /\ FGt(TimeDifference(i), maxDT)
          /\ FGt(btSamples[i + 1].Speed, minSpeed)
          /\ AdvancesBy(i, maxDT)

----------------------------------------------------------------------------
(* ComputeLapMetrics (src/unnamed/part_003:18-104): lap and sector times    *)

LapMetrics(lap, lapTime, sectorTime, sectorDelta) ==
    [Lap |-> lap, LapTime |-> lapTime, SectorTime |-> sectorTime,
     SectorDelta |-> sectorDelta]

\* the inner loops of part_003:52-54 and 57-59: advance idxPtr while it is
\* below end and points[idxPtr].S < s0 + num*sLap/sectors, the comparison
\* multiplied through by sectors
RECURSIVE AdvanceTo(_, _, _, _, _, _, _)
AdvanceTo(points, end, s0, sLap, sectors, num, idxPtr) ==
    IF idxPtr < end /\ (points[idxPtr + 1].S - s0) * sectors < num * sLap
    THEN AdvanceTo(points, end, s0, sLap, sectors, num, idxPtr + 1)
    ELSE idxPtr

\* the sector loop (part_003:48-70) from sector s on, idxPtr carried along
RECURSIVE SectorLoop(_, _, _, _, _, _, _, _, _)
SectorLoop(ss, points, end, s0, sLap, sectors, s, idxPtr, sectorTimes) ==
    IF s >= sectors THEN sectorTimes
    ELSE LET segIdxStart == AdvanceTo(points, end, s0, sLap, sectors, s, idxPtr)
             reached == AdvanceTo(points, end, s0, sLap, sectors, s + 1, segIdxStart)
             segIdxEnd == IF reached >= end THEN end - 1 ELSE reached
             t == IF segIdxEnd <= segIdxStart THEN 0
                  ELSE ss[segIdxEnd + 1].Time - ss[segIdxStart + 1].Time
         IN  SectorLoop(ss, points, end, s0, sLap, sectors, s + 1, reached,
                        Append(sectorTimes, t))

\* the body of the lap loop for one usable lap (part_003:35-74)
LapMetricsOf(ss, points, lapNum, start, end, sectors) ==
    LET lt == ss[end].Time - ss[start + 1].Time
        s0 == points[start + 1].S
        sLap == Max(points[end].S - s0, 0)
    IN  LapMetrics(lapNum, lt,
                   IF sectors > 0
                   THEN SectorLoop(ss, points, end, s0, sLap, sectors, 0, start, <<>>)
                   ELSE <<>>,
                   <<>>)

\* the lap loop (part_003:28-75)
RECURSIVE LapLoop(_, _, _, _, _)
LapLoop(ss, points, lapIdxs, sectors, lapNum) ==
    IF lapNum >= Len(lapIdxs) THEN <<>>
    ELSE LET start == lapIdxs[lapNum]
             end == lapIdxs[lapNum + 1]
         IN  (IF start < 0 \/ end > Len(ss) \/ end > Len(points) \/ end <= start + 1
              THEN <<>>
              ELSE <<LapMetricsOf(ss, points, lapNum, start, end, sectors)>>)
             \o LapLoop(ss, points, lapIdxs, sectors, lapNum + 1)

\* the strictly positive times of sector j (0-based) over all laps; best[j]
\* is their minimum, and stays +Inf when there is none (part_003:78-88)
PositiveSectorTimes(out, j) ==
    { out[l].SectorTime[j + 1] : l \in { m \in 1..Len(out) :
          j < Len(out[m].SectorTime) /\ out[m].SectorTime[j + 1] > 0 } }

SetMin(S) == CHOOSE m \in S : \A o \in S : m <= o

\* part_003:89-102
SectorDeltas(out, lm) ==
    [j \in 1..Len(lm.SectorTime) |->
        IF PositiveSectorTimes(out, j - 1) = {} \/ lm.SectorTime[j] = 0 THEN 0
        ELSE lm.SectorTime[j] - SetMin(PositiveSectorTimes(out, j - 1))]

\* part_003:77-103
WithSectorDeltas(out, sectors) ==
    IF sectors > 0 /\ Len(out) > 0
    THEN [l \in 1..Len(out) |->
            IF Len(out[l].SectorTime) = 0 THEN out[l]
            ELSE [out[l] EXCEPT !.SectorDelta = SectorDeltas(out, out[l])]]
    ELSE out

\* ComputeLapMetrics(samples, points, lapIdx, sectors) (part_003:18-104)
ComputeLapMetrics(ss, points, lapIdxs, sectors) ==
    IF Len(ss) = 0 \/ Len(points) = 0 \/ Len(lapIdxs) < 2 THEN <<>>
    ELSE WithSectorDeltas(LapLoop(ss, points, lapIdxs, Max(sectors, 0), 1),
                          Max(sectors, 0))

\* the sessions ComputeLapMetrics is driven with: from one sample to the
\* next the clock goes back, stands or advances, and the car stands or moves
ClockSteps == {-1, 0, 1}
ArcSteps == {0, 1, 2}

RECURSIVE RunningSum(_)
RunningSum(steps) ==
    IF steps = <<>> THEN <<0>>
    ELSE LET head == RunningSum(SubSeq(steps, 1, Len(steps) - 1))
         IN  Append(head, Last(head) + Last(steps))

MetricSamples ==
    UNION { { [i \in 1..(n + 1) |-> [Time |-> RunningSum(st)[i]]] :
              st \in [1..n -> ClockSteps] } : n \in 0..(MaxMetricPoints - 1) }

MetricPoints ==
    UNION { { [i \in 1..(n + 1) |-> Trackpoint(RunningSum(st)[i], 0, 0, 0)] :
              st \in [1..n -> ArcSteps] } : n \in 0..(MaxMetricPoints - 1) }

\* one lap, or two laps split at k
MetricLapIdx(n) == {<<0, n>>} \cup { <<0, k, n>> : k \in 1..(n - 1) }

SectorCounts == {0, 2, 3}

IdleOthersLm ==
    IdleEvents /\ IdleOvertakes /\ IdleLaps /\ IdleBuildTrack /\ IdleMaster /\ IdleMap /\ IdleRun

InitLapMetrics ==
    /\ lmSamples \in MetricSamples
    /\ lmPoints \in MetricPoints
    /\ Len(lmPoints) = Len(lmSamples)
    /\ lmLapIdx \in MetricLapIdx(Len(lmSamples))
    /\ lmSectors \in SectorCounts
    /\ lmOut = <<>>
    /\ lmpc = "call"
    /\ lmBest = <<>>
    /\ IdleOthersLm

CallComputeLapMetrics ==
    /\ lmpc = "call"
    /\ lmOut' = ComputeLapMetrics(lmSamples, lmPoints, lmLapIdx, lmSectors)
    /\ lmpc' = "done"
    /\ UNCHANGED <<lmSamples, lmPoints, lmLapIdx, lmSectors, lmBest>>
    /\ UNCHANGED notLm

NextLapMetrics == CallComputeLapMetrics

SpecLapMetrics == InitLapMetrics /\ [][NextLapMetrics]_vars

\* main.go:888-896: sector i (0-based) of one lap, with time t
BestStep(best, i, t) ==
    IF t <= 0 THEN best
    ELSE IF i >= Len(best) THEN Append(best, t)
    ELSE IF best[i + 1] = 0 \/ t < best[i + 1] THEN [best EXCEPT ![i + 1] = t]
    ELSE best

\* main.go:887-897: the sectors of one lap from sector i (0-based) on
RECURSIVE BestOverSectors(_, _, _)
BestOverSectors(best, sectorTime, i) ==
    IF i >= Len(sectorTime) THEN best
    ELSE BestOverSectors(BestStep(best, i, sectorTime[i + 1]), sectorTime, i + 1)

\* main.go:886-898: the laps from lap l (1-based) on
RECURSIVE BestOverLaps(_, _, _)
BestOverLaps(best, laps, l) ==
    IF l > Len(laps) THEN best
    ELSE BestOverLaps(BestOverSectors(best, laps[l].SectorTime, 0), laps, l + 1)

\* bestSectorTimes(laps) (main.go:884-899)
bestSectorTimes(laps) == BestOverLaps(<<>>, laps, 1)

\* main.go:455: the best sector times of the metrics just computed
CallBestSectorTimes ==
    /\ lmpc = "done"
    /\ lmBest' = bestSectorTimes(lmOut)
    /\ lmpc' = "best"
    /\ UNCHANGED <<lmSamples, lmPoints, lmLapIdx, lmSectors, lmOut>>
    /\ UNCHANGED notLm

NextBestSectors == CallComputeLapMetrics \/ CallBestSectorTimes

SpecBestSectors == InitLapMetrics /\ [][NextBestSectors]_vars

----------------------------------------------------------------------------
(* Properties of ComputeLapMetrics *)

\* the samples of lap lm have non-decreasing time
MonotoneLap(lm) ==
    \A i \in (lmLapIdx[lm.Lap] + 1)..(lmLapIdx[lm.Lap + 1] - 1) :
        lmSamples[i].Time <= lmSamples[i + 1].Time

\* C8: for a lap with non-decreasing time (and non-decreasing arc length),
\* 3 sectors yield exactly 3 sector times, each >= 0, whose sum equals the
\* lap time, the time of the lap's last sample minus that of its first.
C8_SectorTimesSumToLapTime ==
    (lmpc = "done" /\ lmSectors = 3) =>
        \A l \in 1..Len(lmOut) :
            MonotoneLap(lmOut[l]) =>
                /\ Len(lmOut[l].SectorTime) = 3
                /\ \A j \in 1..3 : lmOut[l].SectorTime[j] >= 0
                /\ lmOut[l].LapTime = lmSamples[lmLapIdx[lmOut[l].Lap + 1]].Time
                                      - lmSamples[lmLapIdx[lmOut[l].Lap] + 1].Time
                /\ SumSeq(lmOut[l].SectorTime) = lmOut[l].LapTime

\* C28: bestSectorTimes uses the baseline of the sector deltas of
\* ComputeLapMetrics: at position j it returns the minimum strictly positive
\* time of sector j across all laps, also when a sector has a zero time in
\* the first laps.
C28_BestSectorIsMinimumPositive ==
    lmpc = "best" =>
        \A j \in 0..(lmSectors - 1) :
            PositiveSectorTimes(lmOut, j) # {}
                => /\ j < Len(lmBest)
                   /\ lmBest[j + 1] = SetMin(PositiveSectorTimes(lmOut, j))

----------------------------------------------------------------------------
(* Master lap building (src/track/track.go:14-216, 459-515)                 *)

\* x := v: body(x) with x standing for the value of v, which is computed once
Let(v, body(_)) == CHOOSE r \in {body(x) : x \in {v}} : TRUE

\* make([]models.Trackpoint, n) filled in by a loop: a slice whose elements
\* are stored
Slice(f) == f \o <<>>

RECURSIVE FSum(_)
FSum(s) == IF s = <<>> THEN Zero ELSE FAdd(s[1], FSum(Tail(s)))

\* CloseLoop's drifted copy of the points (track.go:476-485)
Undrifted(points, dx, dy) ==
    LET n == Len(points)
    IN  Slice([i \in 1..n |->
                  Trackpoint(points[i].S,
                             FSub(points[i].X, FMul(Q(i - 1, n - 1), dx)),
                             FSub(points[i].Y, FMul(Q(i - 1, n - 1), dy)),
                             points[i].Theta)])

\* CloseLoop(points) (track.go:459-492)
CloseLoop(points) ==
    LET n == Len(points)
        dx == FSub(points[n].X, points[1].X)
        dy == FSub(points[n].Y, points[1].Y)
    IN  IF n < 2 THEN points
        ELSE IF FEq(dx, Zero) /\ FEq(dy, Zero) THEN points
        ELSE Let(Undrifted(points, dx, dy),
                 LAMBDA out : [out EXCEPT ![n].X = out[1].X, ![n].Y = out[1].Y])

\* RecomputeArcLength's loop (track.go:508-513); out holds out[0..i-1]
RECURSIVE ArcLengthLoop(_, _, _)
ArcLengthLoop(points, i, out) ==
    IF i >= Len(points) THEN out
    ELSE ArcLengthLoop(points, i + 1,
             Append(out, [points[i + 1] EXCEPT !.S =
                 FAdd(Last(out).S, FHypot(FSub(points[i + 1].X, points[i].X),
                                          FSub(points[i + 1].Y, points[i].Y)))]))

\* RecomputeArcLength(points) (track.go:501-515)
RecomputeArcLength(points) ==
    IF Len(points) = 0 THEN points
    ELSE ArcLengthLoop(points, 1, <<[points[1] EXCEPT !.S = Zero]>>)

\* NormalizeLapSegment(points) (track.go:496-499)
NormalizeLapSegment(points) == RecomputeArcLength(CloseLoop(points))

\* track.go:97-99: advance j while lap[j+1].S < targetS
RECURSIVE ResampleAdvance(_, _, _)
ResampleAdvance(lap, targetS, j) ==
    IF j < Len(lap) - 1 /\ FLt(lap[j + 2].S, targetS)
    THEN ResampleAdvance(lap, targetS, j + 1)
    ELSE j

\* the resampled point for target arc length targetLocal, with j already
\* advanced (track.go:101-124)
ResamplePoint(lap, s0, targetLocal, j) ==
    IF j = Len(lap) - 1 THEN [Last(lap) EXCEPT !.S = targetLocal]
    ELSE LET p1 == lap[j + 1]
             p2 == lap[j + 2]
             denom == FSub(p2.S, p1.S)
             t == IF FGt(denom, Zero)
                  THEN FDiv(FSub(FAdd(s0, targetLocal), p1.S), denom)
                  ELSE Zero
         IN  Trackpoint(targetLocal,
                        FAdd(p1.X, FMul(t, FSub(p2.X, p1.X))),
                        FAdd(p1.Y, FMul(t, FSub(p2.Y, p1.Y))),
                        FAdd(p1.Theta, FMul(t, FSub(p2.Theta, p1.Theta))))

\* a loop that spaces the targets by lapLen / samples, so that the last one
\* stops short of the lap's end
RECURSIVE ResampleLoopShort(_, _, _, _, _, _, _)
ResampleLoopShort(lap, s0, lapLen, count, i, j, out) ==
    IF i >= count THEN out
    ELSE LET targetLocal == FDiv(FMul(Q(i, 1), lapLen), Q(count, 1))
             jj == ResampleAdvance(lap, FAdd(s0, targetLocal), j)
         IN  ResampleLoopShort(lap, s0, lapLen, count, i + 1, jj,
                               Append(out, ResamplePoint(lap, s0, targetLocal, jj)))

\* resampleLap's loop (track.go:93-125)
RECURSIVE ResampleLoop(_, _, _, _, _, _, _)
ResampleLoop(lap, s0, lapLen, count, i, j, out) ==
    IF i >= count THEN out
    ELSE LET targetLocal == FDiv(FMul(Q(i, 1), lapLen), Q(count - 1, 1))
             jj == ResampleAdvance(lap, FAdd(s0, targetLocal), j)
         IN  ResampleLoop(lap, s0, lapLen, count, i + 1, jj,
                          Append(out, ResamplePoint(lap, s0, targetLocal, jj)))

\* resampleLap(points, start, end, samples) (track.go:77-128)
resampleLap(points, start, end, count) ==
    IF end <= start + 1 \/ count < 2 THEN <<>>
    ELSE LET lap == SubSeq(points, start + 1, end)
             lapLen == FSub(Last(lap).S, lap[1].S)
         IN  IF FLe(lapLen, Zero) THEN <<>>
             ELSE ResampleLoop(lap, lap[1].S, lapLen, count, 0, 0, <<>>)

\* the centroids of the two laps (track.go:137-149)
AlignCentroids(ref, lap) ==
    LET n == Len(ref)
        invN == Q(1, n)
    IN  [cxRef |-> FMul(FSum([i \in 1..n |-> ref[i].X]), invN),
         cyRef |-> FMul(FSum([i \in 1..n |-> ref[i].Y]), invN),
         cxLap |-> FMul(FSum([i \in 1..n |-> lap[i].X]), invN),
         cyLap |-> FMul(FSum([i \in 1..n |-> lap[i].Y]), invN)]

\* the dot and cross sums a, b of the centred laps (track.go:151-161)
AlignDotCross(ref, lap, c) ==
    LET n == Len(ref)
        rx(i) == FSub(ref[i].X, c.cxRef)
        ry(i) == FSub(ref[i].Y, c.cyRef)
        lx(i) == FSub(lap[i].X, c.cxLap)
        ly(i) == FSub(lap[i].Y, c.cyLap)
    IN  [a |-> FSum([i \in 1..n |-> FAdd(FMul(lx(i), rx(i)), FMul(ly(i), ry(i)))]),
         b |-> FSum([i \in 1..n |-> FSub(FMul(lx(i), ry(i)), FMul(ly(i), rx(i)))])]

\* cosT, sinT (track.go:163-168)
AlignRotation(ab, denom) ==
    [cosT |-> IF FGt(denom, Zero) THEN FDiv(ab.a, denom) ELSE One,
     sinT |-> IF FGt(denom, Zero) THEN FDiv(ab.b, denom) ELSE Zero]

\* the sums num, den of the scale (track.go:170-181)
AlignNumDen(ref, lap, c, rot) ==
    LET n == Len(ref)
        rx(i) == FSub(ref[i].X, c.cxRef)
        ry(i) == FSub(ref[i].Y, c.cyRef)
        lx(i) == FSub(lap[i].X, c.cxLap)
        ly(i) == FSub(lap[i].Y, c.cyLap)
    IN  [num |-> FSum([i \in 1..n |->
                    FAdd(FMul(rx(i), FSub(FMul(rot.cosT, lx(i)), FMul(rot.sinT, ly(i)))),
                         FMul(ry(i), FAdd(FMul(rot.sinT, lx(i)), FMul(rot.cosT, ly(i)))))]),
         den |-> FSum([i \in 1..n |-> FAdd(FMul(lx(i), lx(i)), FMul(ly(i), ly(i)))])]

\* scale (track.go:182-185)
AlignScale(nd) == IF FGt(nd.den, Zero) THEN FDiv(nd.num, nd.den) ELSE One

\* the rotation, scale and centroids alignLapToRef computes (track.go:137-185)
AlignTransform(ref, lap) ==
    Let(AlignCentroids(ref, lap), LAMBDA c :
    Let(AlignDotCross(ref, lap, c), LAMBDA ab :
    Let(AlignRotation(ab, FHypot(ab.a, ab.b)), LAMBDA rot :
    Let(AlignNumDen(ref, lap, c, rot), LAMBDA nd :
        [cosT |-> rot.cosT, sinT |-> rot.sinT, scale |-> AlignScale(nd),
         cxRef |-> c.cxRef, cyRef |-> c.cyRef,
         cxLap |-> c.cxLap, cyLap |-> c.cyLap]))))

\* a rotation that leaves the lap about the origin instead of moving it to the
\* reference centroid
AlignRotatedAboutOrigin(tr, lap) ==
    Slice([i \in 1..Len(lap) |->
        LET dx == FSub(lap[i].X, tr.cxLap)
            dy == FSub(lap[i].Y, tr.cyLap)
        IN  Trackpoint(lap[i].S,
                       FMul(FSub(FMul(tr.cosT, dx), FMul(tr.sinT, dy)), tr.scale),
                       FMul(FAdd(FMul(tr.sinT, dx), FMul(tr.cosT, dy)), tr.scale),
                       lap[i].Theta)])

\* the lap rotated, scaled and moved to the reference centroid (track.go:187-203)
AlignRotated(tr, lap) ==
    Slice([i \in 1..Len(lap) |->
        LET dx == FSub(lap[i].X, tr.cxLap)
            dy == FSub(lap[i].Y, tr.cyLap)
        IN  Trackpoint(lap[i].S,
                       FAdd(FMul(FSub(FMul(tr.cosT, dx), FMul(tr.sinT, dy)), tr.scale),
                            tr.cxRef),
                       FAdd(FMul(FAdd(FMul(tr.sinT, dx), FMul(tr.cosT, dy)), tr.scale),
                            tr.cyRef),
                       lap[i].Theta)])

\* the anchor shift (track.go:206-207)
AlignShift(ref, out) ==
    [x |-> FSub(ref[1].X, out[1].X), y |-> FSub(ref[1].Y, out[1].Y)]

\* track.go:208-213
AlignAnchored(out, shift) ==
    IF ~FEq(shift.x, Zero) \/ ~FEq(shift.y, Zero)
    THEN Slice([i \in 1..Len(out) |->
                   [out[i] EXCEPT !.X = FAdd(out[i].X, shift.x),
                                  !.Y = FAdd(out[i].Y, shift.y)]])
    ELSE out

\* alignLapToRef(ref, lap) (track.go:131-216)
alignLapToRef(ref, lap) ==
    IF Len(lap) # Len(ref) \/ Len(ref) = 0 THEN lap
    ELSE Let(AlignTransform(ref, lap), LAMBDA tr :
         Let(AlignRotated(tr, lap), LAMBDA out :
         Let(AlignShift(ref, out), LAMBDA shift : AlignAnchored(out, shift))))

\* one lap of step 1 (track.go:27-39): <<>> when the lap is not usable
ResampledLap(points, start, end, count) ==
    IF end <= start + 1 THEN <<>>
    ELSE Let(NormalizeLapSegment(SubSeq(points, start + 1, end)),
             LAMBDA lap : resampleLap(lap, 0, Len(lap), count))

\* step 1 of BuildMasterLap (track.go:24-40): the usable laps, closed and
\* resampled, from the 0-based boundary position i on
RECURSIVE ResampledLaps(_, _, _, _)
ResampledLaps(points, lapIdxs, count, i) ==
    IF i >= Len(lapIdxs) - 1 THEN <<>>
    ELSE Let(ResampledLap(points, lapIdxs[i + 1],
                          Min(lapIdxs[i + 2], Len(points)), count),
             LAMBDA lap : IF lap = <<>> THEN <<>> ELSE <<lap>>)
         \o ResampledLaps(points, lapIdxs, count, i + 1)

\* a master builder whose average counts one lap too many
MeanOfOneMore(sum, n) == FDiv(sum, Q(n + 1, 1))

\* track.go:64-68: sx / n
MeanOf(sum, n) == FDiv(sum, Q(n, 1))

\* a step 2 that averages the resampled laps as they are
UnalignedLaps(laps) == laps

\* step 2 of BuildMasterLap (track.go:45-54)
AlignedLaps(laps) ==
    Slice([l \in 1..Len(laps) |->
              IF l = 1 THEN laps[1] ELSE alignLapToRef(laps[1], laps[l])])

\* step 3 of BuildMasterLap (track.go:57-71)
AverageLaps(ref, aligned, count) ==
    Slice([i \in 1..count |->
        Trackpoint(ref[i].S,
                   MeanOf(FSum([l \in 1..Len(aligned) |-> aligned[l][i].X]),
                          Len(aligned)),
                   MeanOf(FSum([l \in 1..Len(aligned) |-> aligned[l][i].Y]),
                          Len(aligned)),
                   Zero)])

\* track.go:20-22
WithFinalBoundary(lapIdxs, n) ==
    IF Last(lapIdxs) # n THEN Append(lapIdxs, n) ELSE lapIdxs

\* BuildMasterLap(points, lapIdx, samples) (track.go:14-74)
BuildMasterLap(points, lapIdxs, count) ==
    IF Len(lapIdxs) < 2 \/ count < 2 THEN <<>>
    ELSE Let(ResampledLaps(points, WithFinalBoundary(lapIdxs, Len(points)), count, 0),
             LAMBDA laps :
                 IF Len(laps) = 0 THEN <<>>
                 ELSE Let(AlignedLaps(laps),
                          LAMBDA aligned : AverageLaps(laps[1], aligned, count)))

\* the sessions the master builder is driven with: grid walks of a car that
\* moves at every step, with a heading that grows by one unit per point
MasterMoves == {<<1, 0>>, <<0, 1>>, <<-1, 0>>}

FloatTrack(track) ==
    Slice([i \in 1..Len(track) |->
        Trackpoint(Q(track[i].S, 1), Q(track[i].X, 1), Q(track[i].Y, 1), Q(i - 1, 1))])

MasterTracks ==
    UNION { {FloatTrack(TrackOf(ms)) : ms \in [1..n -> MasterMoves]} :
            n \in 1..(MaxMasterPoints - 1) }

\* no lap, one lap, one lap whose end boundary is missing, or two laps that
\* split the session in the middle
MasterLapIdx(n) == {<<0>>, <<0, n>>, <<0, n - 1>>, <<0, n \div 2, n>>}

MasterCounts == {1, 2, 3}

IdleOthersMl ==
    IdleEvents /\ IdleOvertakes /\ IdleLaps /\ IdleBuildTrack /\ IdleLapMetrics /\ IdleMap /\ IdleRun

InitMaster ==
    /\ mlPoints \in MasterTracks
    /\ mlLapIdx \in MasterLapIdx(Len(mlPoints))
    /\ mlCount \in MasterCounts
    /\ mlOut = <<>>
    /\ alRef = <<>>
    /\ alLap = <<>>
    /\ alOut = <<>>
    /\ mlpc = "call"
    /\ IdleOthersMl

CallBuildMasterLap ==
    /\ mlpc = "call"
    /\ mlOut' = BuildMasterLap(mlPoints, mlLapIdx, mlCount)
    /\ mlpc' = "built"
    /\ UNCHANGED <<mlPoints, mlLapIdx, mlCount, alRef, alLap, alOut>>
    /\ UNCHANGED notMl

\* the resampled laps of the session, as BuildMasterLap passes them on
SessionLaps ==
    IF Len(mlLapIdx) < 2 THEN <<>>
    ELSE ResampledLaps(mlPoints, WithFinalBoundary(mlLapIdx, Len(mlPoints)), mlCount, 0)

\* alignLapToRef on any two resampled laps of the session
CallAlignLapToRef ==
    /\ mlpc = "call"
    /\ \E laps \in {SessionLaps} :
          \E i \in 1..Len(laps), j \in 1..Len(laps) :
              /\ alRef' = laps[i]
              /\ alLap' = laps[j]
              /\ alOut' = alignLapToRef(laps[i], laps[j])
    /\ mlpc' = "aligned"
    /\ UNCHANGED <<mlPoints, mlLapIdx, mlCount, mlOut>>
    /\ UNCHANGED notMl

\* step 1 of BuildMasterLap on the session taken as one lap segment
\* (track.go:36-37): close, re-measure, resample
CallResampleLap ==
    /\ mlpc = "call"
    /\ mlOut' = ResampledLap(mlPoints, 0, Len(mlPoints), mlCount)
    /\ mlpc' = "resampled"
    /\ UNCHANGED <<mlPoints, mlLapIdx, mlCount, alRef, alLap, alOut>>
    /\ UNCHANGED notMl

NextMaster == CallBuildMasterLap \/ CallAlignLapToRef \/ CallResampleLap

SpecMaster == InitMaster /\ [][NextMaster]_vars

\* the one lap of the session, closed, re-measured and resampled
OneLapResampled ==
    resampleLap(RecomputeArcLength(CloseLoop(mlPoints)), 0, Len(mlPoints), mlCount)

\* the session is one lap {0, N} of at least 2 points with positive closed length
OneLapSession ==
    /\ mlLapIdx = <<0, Len(mlPoints)>>
    /\ Len(mlPoints) >= 2
    /\ FGt(Last(RecomputeArcLength(CloseLoop(mlPoints))).S, Zero)

SamePlace(p, q) == FEq(p.S, q.S) /\ FEq(p.X, q.X) /\ FEq(p.Y, q.Y)

\* C9: when BuildMasterLap is given exactly one lap (boundaries {0, N}) with at
\* least 2 points and positive closed length, every master point's S, X and Y
\* equal those of that lap after CloseLoop, arc-length recomputation and
\* resampling to the target count
C9_MasterOfOneLapIsTheLap ==
    (mlpc = "built" /\ OneLapSession) =>
        /\ Len(mlOut) = Len(OneLapResampled)
        /\ \A i \in 1..Len(mlOut) : SamePlace(mlOut[i], OneLapResampled[i])

\* a master lap of three points built from one lap that leaves its start
C9_Witness ==
    /\ mlpc = "built"
    /\ OneLapSession
    /\ Len(mlOut) = 3
    /\ ~FEq(mlOut[2].X, mlOut[1].X)
    /\ ~FEq(mlOut[2].Y, mlOut[1].Y)

SamePoint(p, q) == SamePlace(p, q) /\ FEq(p.Theta, q.Theta)

\* C10: aligning a resampled lap L to itself is the identity: alignLapToRef(L, L)
\* computes cos = 1, sin = 0, scale 1 and a zero anchor shift, and returns
\* points whose X, Y, S and Theta equal those of L, also when all points of L
\* coincide
C10_AlignToSelfIsIdentity ==
    (mlpc = "aligned" /\ alRef = alLap) =>
        LET tr == AlignTransform(alRef, alLap)
            shift == AlignShift(alRef, AlignRotated(tr, alLap))
        IN  /\ FEq(tr.cosT, One)
            /\ FEq(tr.sinT, Zero)
            /\ FEq(tr.scale, One)
            /\ FEq(shift.x, Zero)
            /\ FEq(shift.y, Zero)
            /\ Len(alOut) = Len(alLap)
            /\ \A i \in 1..Len(alOut) : SamePoint(alOut[i], alLap[i])

\* a lap of three points that leaves its start has been aligned to itself
C10_Witness ==
    /\ mlpc = "aligned"
    /\ alRef = alLap
    /\ Len(alLap) = 3
    /\ ~FEq(alLap[2].X, alLap[1].X)
    /\ ~FEq(alLap[2].Y, alLap[1].Y)

\* the closed lap's total path length
ClosedLength == Last(NormalizeLapSegment(mlPoints)).S

\* a lap segment of at least 2 points with positive closed length has been
\* resampled to at least 2 points
ResampledUsableLap ==
    /\ mlpc = "resampled"
    /\ Len(mlPoints) >= 2
    /\ mlCount >= 2
    /\ FGt(ClosedLength, Zero)

\* C11 as claimed: the arc length recomputed from the resampled points ends at
\* the closed lap's total path length
C11_RecomputedLengthIsClosedLength ==
    ResampledUsableLap =>
        /\ Len(mlOut) = mlCount
        /\ FEq(Last(RecomputeArcLength(mlOut)).S, ClosedLength)

\* C11 as amended: the resampled lap has the target count of points and its
\* S, the arc length resampleLap assigns, runs from 0 to the closed lap's
\* total path length
C11_ResampledEndsAtClosedLength ==
    ResampledUsableLap =>
        /\ Len(mlOut) = mlCount
        /\ FEq(mlOut[1].S, Zero)
        /\ FEq(Last(mlOut).S, ClosedLength)

\* a lap resampled to three points whose chords are shorter than its path
C11_Witness ==
    /\ ResampledUsableLap
    /\ mlCount = 3
    /\ FLt(Last(RecomputeArcLength(mlOut)).S, ClosedLength)

\* lap l of the session as it enters the average: the reference lap itself,
\* every later lap aligned to it
EnteringLap(laps, l) == IF l = 1 THEN laps[1] ELSE alignLapToRef(laps[1], laps[l])

EnteringLaps(laps) == Slice([l \in 1..Len(laps) |-> EnteringLap(laps, l)])

\* n times the master's value is the sum of the laps' values
IsMeanOf(v, vals) == FEq(FMul(v, Q(Len(vals), 1)), FSum(vals))

\* master point i has the mean X and Y of the laps' i-th points and the
\* reference lap's S
MeanPlace(laps, aligned, i) ==
    /\ IsMeanOf(mlOut[i].X, [l \in 1..Len(aligned) |-> aligned[l][i].X])
    /\ IsMeanOf(mlOut[i].Y, [l \in 1..Len(aligned) |-> aligned[l][i].Y])
    /\ FEq(mlOut[i].S, laps[1][i].S)

MeanHeading(aligned, i) ==
    IsMeanOf(mlOut[i].Theta, [l \in 1..Len(aligned) |-> aligned[l][i].Theta])

\* C12 as claimed: each master point has the mean X, Y and heading of the
\* aligned laps' i-th points and the S of the reference lap's i-th point
C12_MasterIsMeanWithHeading ==
    mlpc = "built" =>
        \A laps \in {SessionLaps} : \A aligned \in {EnteringLaps(laps)} :
            IF laps = <<>> THEN mlOut = <<>>
            ELSE /\ Len(mlOut) = mlCount
                 /\ \A i \in 1..mlCount :
                        MeanPlace(laps, aligned, i) /\ MeanHeading(aligned, i)

\* C12 as amended: each master point has the mean X and Y of the aligned laps'
\* i-th points, the S of the reference lap's i-th point, and heading 0
C12_MasterIsMeanWithZeroHeading ==
    mlpc = "built" =>
        \A laps \in {SessionLaps} : \A aligned \in {EnteringLaps(laps)} :
            IF laps = <<>> THEN mlOut = <<>>
            ELSE /\ Len(mlOut) = mlCount
                 /\ \A i \in 1..mlCount :
                        MeanPlace(laps, aligned, i) /\ FEq(mlOut[i].Theta, Zero)

\* a master lap of three points averaged from two laps, the second of which
\* the alignment has moved, and whose laps have a heading other than 0
C12_Witness ==
    /\ mlpc = "built"
    /\ mlCount = 3
    /\ Len(mlOut) = 3
    /\ \E laps \in {SessionLaps} :
          /\ Len(laps) = 2
          /\ alignLapToRef(laps[1], laps[2]) # laps[2]
          /\ ~FEq(laps[1][2].X, laps[2][2].X)
          /\ FGt(laps[1][2].Theta, Zero)

----------------------------------------------------------------------------
(* MapRelSToMaster (src/track/eventdetection.go:418-436)                   *)
(*                                                                         *)
(* Arc lengths and coordinates are integers (a fixed unit); every sum and  *)
(* difference of the function is exact on them.                            *)

\* longest master path passed to MapRelSToMaster
MaxMapPoints == 3

\* largest arc length of a master point
MaxMapS == 3

\* lines 422-425: the 0-based j the loop ends at
RECURSIVE MapScan(_, _, _)
MapScan(master, relS, j) ==
    IF j + 1 < Len(master) /\ master[j + 2].S <= relS
    THEN MapScan(master, relS, j + 1)
    ELSE j

\* lines 426-431, with the upper neighbour preferred on a tie
MapClosestUpper(master, relS, j) ==
    IF j + 1 < Len(master) /\ relS - master[j + 1].S >= master[j + 2].S - relS
    THEN j + 1
    ELSE j

\* lines 426-431
MapClosest(master, relS, j) ==
    IF j + 1 < Len(master) /\ relS - master[j + 1].S > master[j + 2].S - relS
    THEN j + 1
    ELSE j

\* MapRelSToMaster(master, relS, px, py): <<index, S, X, Y, distSq>>
MapRelSToMaster(master, relS, px, py) ==
    IF Len(master) = 0 THEN <<0, 0, 0, 0, 0>>
    ELSE LET closest == MapClosest(master, relS, MapScan(master, relS, 0))
             m == master[closest + 1]
             dx == px - m.X
             dy == py - m.Y
         IN  <<closest, m.S, m.X, m.Y, dx * dx + dy * dy>>

\* master paths: any arc lengths (ordered or not), points told apart by X
MapPoints == {Trackpoint(s, x, 0, 0) : s \in 0..MaxMapS, x \in {0, 1}}

MapMasters == UNION {[1..n -> MapPoints] : n \in 0..MaxMapPoints}

MapRelSValues == (-1)..(MaxMapS + 1)

IdleOthersMap ==
    IdleEvents /\ IdleOvertakes /\ IdleLaps /\ IdleBuildTrack /\ IdleLapMetrics /\ IdleMaster /\ IdleRun

InitMap ==
    /\ mapMaster \in MapMasters
    /\ mapRelS \in MapRelSValues
    /\ mapP \in {<<0, 0>>, <<2, 1>>}
    /\ mapOut = <<>>
    /\ mappc = "call"
    /\ mapLap = <<>>
    /\ mapStart = 0
    /\ mapScale = 0
    /\ mapEmit = <<>>
    /\ IdleOthersMap

CallMapRelSToMaster ==
    /\ mappc = "call"
    /\ mapOut' = MapRelSToMaster(mapMaster, mapRelS, mapP[1], mapP[2])
    /\ mappc' = "done"
    /\ UNCHANGED <<mapMaster, mapRelS, mapP, mapLap, mapStart, mapScale, mapEmit>>
    /\ UNCHANGED notMap

NextMap == CallMapRelSToMaster

SpecMap == InitMap /\ [][NextMap]_vars

\* longest lap segment passed to MapToMaster
MaxLapPoints == 3

\* lines 392-394
EffectiveScale(scaleS) == IF scaleS = 0 THEN 1 ELSE scaleS

\* the arc length of lap point i (1-based) times the scale, not taken
\* relative to the first point
MapAbsS(lap, i, scaleS) == lap[i].S * EffectiveScale(scaleS)

\* line 398
MapRelS(lap, i, scaleS) == (lap[i].S - lap[1].S) * EffectiveScale(scaleS)

\* lines 397-414: lap point i (1-based) with the scan resuming at j (0-based)
RECURSIVE MapToMasterLoop(_, _, _, _, _, _, _)
MapToMasterLoop(lap, master, startIndex, scaleS, i, j, out) ==
    IF i > Len(lap) THEN out
    ELSE LET relS == MapRelS(lap, i, scaleS)
             j2 == MapScan(master, relS, j)
             closest == MapClosest(master, relS, j2)
             m == master[closest + 1]
             dx == lap[i].X - m.X
             dy == lap[i].Y - m.Y
         IN  MapToMasterLoop(lap, master, startIndex, scaleS, i + 1, j2,
                 Append(out, <<startIndex + (i - 1), relS, lap[i].X, lap[i].Y,
                               closest, m.S, m.X, m.Y, dx * dx + dy * dy>>))

\* MapToMaster(lap, master, startIndex, scaleS, emit): the calls of emit
MapToMaster(lap, master, startIndex, scaleS) ==
    IF Len(lap) = 0 \/ Len(master) = 0 THEN <<>>
    ELSE MapToMasterLoop(lap, master, startIndex, scaleS, 1, 0, <<>>)

\* sequences of at most n arc lengths in 0..maxS, non-decreasing
OrderedArcs(n, maxS) ==
    {ss \in UNION {[1..k -> 0..maxS] : k \in 0..n} :
        \A k \in 1..(Len(ss) - 1) : ss[k] <= ss[k + 1]}

\* master paths with non-decreasing S, points told apart by X
OrderedMasters ==
    {[k \in 1..Len(ss) |-> Trackpoint(ss[k], ss[k] % 2, 0, 0)] :
        ss \in OrderedArcs(MaxMapPoints, MaxMapS)}

\* lap segments with non-decreasing S, beside the master path
LapSegments ==
    {[k \in 1..Len(ss) |-> Trackpoint(ss[k], 2, 1, 0)] :
        ss \in OrderedArcs(MaxLapPoints, MaxMapS)}

StartIndices == {0, 2}

ScaleValues == {0, 1, 2}

InitMapLap ==
    /\ mapMaster \in OrderedMasters
    /\ mapLap \in LapSegments
    /\ mapStart \in StartIndices
    /\ mapScale \in ScaleValues
    /\ mapRelS = 0
    /\ mapP = <<0, 0>>
    /\ mapOut = <<>>
    /\ mapEmit = <<>>
    /\ mappc = "callLap"
    /\ IdleOthersMap

CallMapToMaster ==
    /\ mappc = "callLap"
    /\ mapEmit' = MapToMaster(mapLap, mapMaster, mapStart, mapScale)
    /\ mappc' = "doneLap"
    /\ UNCHANGED <<mapMaster, mapRelS, mapP, mapOut, mapLap, mapStart, mapScale>>
    /\ UNCHANGED notMap

NextMapLap == CallMapToMaster

SpecMapLap == InitMapLap /\ [][NextMapLap]_vars

----------------------------------------------------------------------------
(* Properties of MapRelSToMaster *)

\* what the callback receives for lap point i (1-based) when it is mapped on
\* its own
SinglePoint(i) ==
    Let((mapLap[i].S - mapLap[1].S) * (IF mapScale = 0 THEN 1 ELSE mapScale),
        LAMBDA relS :
            <<mapStart + (i - 1), relS, mapLap[i].X, mapLap[i].Y>>
                \o MapRelSToMaster(mapMaster, relS, mapLap[i].X, mapLap[i].Y))

OncePerPointAsSinglePoint ==
    /\ Len(mapEmit) = Len(mapLap)
    /\ \A i \in 1..Len(mapLap) : mapEmit[i] = SinglePoint(i)
    /\ \A i \in 1..(Len(mapEmit) - 1) : mapEmit[i][5] <= mapEmit[i + 1][5]

\* C27 as stated: for every master path and lap segment with non-decreasing
\* S, MapToMaster calls the callback exactly once per lap point, in input
\* order, with idx = startIndex + i, non-decreasing master indices, and the
\* values MapRelSToMaster returns for that point.
C27_MapToMasterAsSinglePoint ==
    mappc = "doneLap" => OncePerPointAsSinglePoint

\* C27, amended: the same for every non-empty master path; for an empty
\* master path the callback is not called.
C27_MapToMasterAsSinglePointNonEmpty ==
    mappc = "doneLap" =>
        IF Len(mapMaster) > 0 THEN OncePerPointAsSinglePoint ELSE mapEmit = <<>>

\* C27 witness: a lap that does not start at arc length 0 is stretched onto
\* the master path and its points land on different master points
C27_Witness ==
    /\ mappc = "doneLap"
    /\ Len(mapLap) = 3
    /\ mapLap[1].S > 0
    /\ mapScale = 2
    /\ Len(mapEmit) = 3
    /\ mapEmit[1][5] < mapEmit[2][5]
    /\ mapEmit[2][5] < mapEmit[3][5]

\* the master path has non-decreasing S
MapOrdered == \A k \in 1..(Len(mapMaster) - 1) : mapMaster[k].S <= mapMaster[k + 1].S

\* the 0-based master indices whose S is nearest to relS
MapNearest ==
    {c \in 0..(Len(mapMaster) - 1) :
        \A k \in 1..Len(mapMaster) :
            Abs(mapMaster[c + 1].S - mapRelS) <= Abs(mapMaster[k].S - mapRelS)}

\* the returned values describe master point c and its squared distance to
\* (px, py)
MapReturns(c) ==
    /\ mapOut[1] = c
    /\ mapOut[2] = mapMaster[c + 1].S
    /\ mapOut[3] = mapMaster[c + 1].X
    /\ mapOut[4] = mapMaster[c + 1].Y
    /\ mapOut[5] = (mapP[1] - mapMaster[c + 1].X) * (mapP[1] - mapMaster[c + 1].X)
                   + (mapP[2] - mapMaster[c + 1].Y) * (mapP[2] - mapMaster[c + 1].Y)

\* C17 as stated: for a non-empty master path with non-decreasing S the
\* returned index is the lowest of the indices whose S is nearest to relS,
\* and S, X, Y and the squared distance are those of that point.
C17_NearestLowestIndex ==
    (mappc = "done" /\ Len(mapMaster) > 0 /\ MapOrdered)
        => \E c \in MapNearest :
              /\ \A k \in MapNearest : c <= k
              /\ MapReturns(c)

\* C17, amended: the returned index is one whose S is nearest to relS; when a
\* lower and a higher S are equally near, it is a point with the lower S;
\* among the master points sharing the returned S it is the highest index
\* when that S is at most relS and the lowest index otherwise; S, X, Y and
\* the squared distance are those of the returned point.
C17_NearestLowerS ==
    (mappc = "done" /\ Len(mapMaster) > 0 /\ MapOrdered)
        => \E c \in MapNearest :
              /\ \A k \in MapNearest : mapMaster[c + 1].S <= mapMaster[k + 1].S
              /\ \A k \in 0..(Len(mapMaster) - 1) :
                    mapMaster[k + 1].S = mapMaster[c + 1].S
                        => IF mapMaster[c + 1].S <= mapRelS THEN k <= c ELSE c <= k
              /\ MapReturns(c)

\* C17 witness: relS lies exactly halfway between two master points with
\* different S, and the lower one was returned
C17_Witness ==
    /\ mappc = "done"
    /\ MapOrdered
    /\ Len(mapMaster) = 3
    /\ mapOut[1] = 1
    /\ mapRelS - mapMaster[2].S = mapMaster[3].S - mapRelS
    /\ mapMaster[2].S < mapRelS
    /\ mapMaster[1].S < mapMaster[2].S
    /\ mapOut[5] > 0

----------------------------------------------------------------------------
(* main: the session workers of phase 1, the aggregation of their results  *)
(* and the master build (src/main.go:113-276).                             *)
(*                                                                         *)
(* An input file is given by what loading and BuildTrack make of it: is it *)
(* readable, the reconstructed path (one Trackpoint per sample, in grid    *)
(* units) and the LapNumber column.  The fields of sessionResult that the  *)
(* aggregation does not read (samples, events, dist, dur) are left out.    *)

\* most input files of a run
MaxSessions == 2

Runs == {1, 2}

\* flag values (main.go:99-107), in grid units
StartFinishRadius == 1
MinLapSpacing == 2
LapLenFlag == 0
LapTolFlag == 3
MasterSamples == 3

InputFile(readable, track, nums) ==
    [readable |-> readable, track |-> track, lapNumbers |-> nums]

\* a file that cannot be loaded
FileUnreadable == InputFile(FALSE, <<>>, <<>>)

\* a file with a single sample
FileShort == InputFile(TRUE, <<Trackpoint(0, 0, 0, 0)>>, <<1>>)

\* out and back over one unit, the lap counter rising on the last sample
FileLapOne ==
    InputFile(TRUE, <<Trackpoint(0, 0, 0, 0), Trackpoint(1, 1, 0, 0),
                      Trackpoint(2, 0, 0, 0), Trackpoint(2, 0, 0, 0)>>,
              <<1, 1, 1, 2>>)

\* out and back over two units, the lap counter rising on the last sample
FileLapTwo ==
    InputFile(TRUE, <<Trackpoint(0, 0, 0, 0), Trackpoint(2, 2, 0, 0),
                      Trackpoint(4, 0, 0, 0), Trackpoint(4, 0, 0, 0)>>,
              <<1, 1, 1, 2>>)

\* a straight point-to-point drive, the lap counter constant
FileStraight ==
    InputFile(TRUE, <<Trackpoint(0, 0, 0, 0), Trackpoint(1, 1, 0, 0),
                      Trackpoint(2, 2, 0, 0)>>,
              <<1, 1, 1>>)

\* a car that stands still for two samples
FileParked ==
    InputFile(TRUE, <<Trackpoint(0, 0, 0, 0), Trackpoint(0, 0, 0, 0)>>, <<1, 1>>)

InputFileKinds ==
    {FileUnreadable, FileShort, FileLapOne, FileLapTwo, FileStraight, FileParked}

FlagValues == [sprintMode : BOOLEAN, lapCount : {0, 2}]

\* DeriveLapCount(totalDist, preferred) (part_002:35-51); math.Round of
\* totalDist / 50000 is (2 * totalDist + 100000) \div 200000 for totalDist > 0
DeriveLapCount(totalDist, preferred) ==
    IF preferred > 0 THEN preferred
    ELSE IF totalDist <= 0 THEN 1
    ELSE Max(1, Min(8, (2 * totalDist + 100000) \div 200000))

\* BuildTrack fails on any input
BuildTrackFailsOnEmpty(track) == Len(track) < 1

\* BuildTrack returns an error for fewer than 2 samples (track.go:219-221)
BuildTrackFails(track) == Len(track) < 2

\* a sessionResult that carries an error (main.go:142, 148)
ErrResult(p, what) ==
    [path |-> p, err |-> what, track |-> <<>>, race |-> "", lapIdx |-> <<>>]

\* raceType and laps (main.go:155-172)
RaceTypeAndLaps(fl, telemetryLapIdx, loop, sessionDist) ==
    IF fl.sprintMode THEN [race |-> "sprint", laps |-> 1]
    ELSE IF telemetryLapIdx # <<>>
    THEN [race |-> "lapped", laps |-> Len(telemetryLapIdx) - 1]
    ELSE IF fl.lapCount > 0
    THEN [race |-> IF fl.lapCount > 1 THEN "lapped" ELSE "sprint",
          laps |-> fl.lapCount]
    ELSE IF loop
    THEN [race |-> "lapped", laps |-> DeriveLapCount(sessionDist, fl.lapCount)]
    ELSE [race |-> "sprint", laps |-> 1]

\* lapIdx (main.go:173-185)
SessionLapIdx(fl, tp, telemetryLapIdx, rl) ==
    IF rl.race = "lapped"
    THEN IF telemetryLapIdx # <<>> THEN telemetryLapIdx
         ELSE LET enforce == fl.lapCount > 0
                  built == BuildLapIdx(tp, rl.laps, LapLenFlag, LapTolFlag,
                                       MinLapSpacing, enforce, StartFinishRadius)
              IN  IF enforce /\ Len(built) = 2 /\ rl.laps > 1
                  THEN BuildEvenLapIdx(tp, rl.laps)
                  ELSE built
    ELSE <<0, Len(tp)>>

\* what a worker sends once its file is loaded (main.go:145-195)
ProcessSession(p, file, fl) ==
    IF BuildTrackFails(file.track) THEN ErrResult(p, "track")
    ELSE LET tp == file.track
             telemetryLapIdx == LapIdxFromTelemetry(file.lapNumbers)
             near == DetectLapsNearStart(tp, StartFinishRadius, MinLapSpacing)
             rl == RaceTypeAndLaps(fl, telemetryLapIdx, Len(near) > 2, Last(tp).S)
         IN  [path |-> p, err |-> "", track |-> tp, race |-> rl.race,
              lapIdx |-> SessionLapIdx(fl, tp, telemetryLapIdx, rl)]

\* the loop over the laps of one result (main.go:214-223); i is 0-based
RECURSIVE AddLaps(_, _, _, _)
AddLaps(res, onlyFirst, i, acc) ==
    IF i >= Len(res.lapIdx) - 1 THEN acc
    ELSE LET pts == acc.points \o SubSeq(res.track, res.lapIdx[i + 1] + 1,
                                         res.lapIdx[i + 2])
             next == [points |-> pts,
                      idx |-> Append(acc.idx, Len(pts)),
                      added |-> acc.added + 1,
                      source |-> Append(acc.source, res.path)]
         IN  IF onlyFirst THEN next ELSE AddLaps(res, onlyFirst, i + 1, next)

\* the results the range loop passes over (main.go:200-207)
Skipped(res) == res.err # "" \/ Len(res.lapIdx) < 2

\* BuildMasterPath(points, samples, false): the arc length is recomputed
\* from the raw geometry and the path resampled to the target count
BuildMasterPath(points, count) ==
    resampleLap(RecomputeArcLength(points), 0, Len(points), count)

\* the master path of the run (main.go:241-272); -use-master is on
MasterOfRun(points, lapIdxs, sprint) ==
    IF sprint THEN BuildMasterPath(FloatTrack(points), MasterSamples)
    ELSE BuildMasterLap(FloatTrack(points), lapIdxs, MasterSamples)

\* what phase 1 leaves alone
phase2Vars == <<phase2Pc, partials, accesses, outCars>>

\* the capacity of the channel results (main.go:134)
ChanCapacity == Len(inputFiles)

\* results <- ... goes through when the buffer has room
CanSend(r) == Len(results[r]) < ChanCapacity

IdleOthersRun ==
    IdleEvents /\ IdleOvertakes /\ IdleLaps /\ IdleBuildTrack /\ IdleLapMetrics /\ IdleMaster /\ IdleMap

\* main.go:113-134: the input files are collected, the accumulators are
\* empty, one worker per file is started
InitRun ==
    /\ inputFiles \in UNION {[1..n -> InputFileKinds] : n \in 1..MaxSessions}
    /\ flags \in FlagValues
    /\ workerPc = [r \in Runs |-> [i \in 1..Len(inputFiles) |-> "start"]]
    /\ results = [r \in Runs |-> <<>>]
    /\ mainPc = [r \in Runs |-> "wait"]
    /\ allPoints = [r \in Runs |-> <<>>]
    /\ allLapIdx = [r \in Runs |-> <<0>>]
    /\ lapsAdded = [r \in Runs |-> 0]
    /\ lapSource = [r \in Runs |-> <<>>]
    /\ sessions = [r \in Runs |-> <<>>]
    /\ detectedSprint = [r \in Runs |-> FALSE]
    /\ masterTrack = [r \in Runs |-> <<>>]
    /\ sendCount = [r \in Runs |-> [i \in 1..Len(inputFiles) |-> 0]]
    /\ received = [r \in Runs |-> <<>>]
    /\ phase2Pc = <<>>
    /\ partials = <<>>
    /\ accesses = {}
    /\ outCars = <<>>
    /\ IdleOthersRun

\* a worker loads its file (main.go:140-144)
WorkerLoad(r, i) ==
    /\ workerPc[r][i] = "start"
    /\ IF inputFiles[i].readable
       THEN /\ workerPc' = [workerPc EXCEPT ![r][i] = "loaded"]
            /\ UNCHANGED <<results, sendCount>>
       ELSE /\ CanSend(r)
            /\ workerPc' = [workerPc EXCEPT ![r][i] = "done"]
            /\ results' = [results EXCEPT ![r] = Append(@, ErrResult(i, "load"))]
            /\ sendCount' = [sendCount EXCEPT ![r][i] = @ + 1]
    /\ UNCHANGED <<inputFiles, flags, mainPc, allPoints, allLapIdx, lapsAdded,
                   lapSource, sessions, detectedSprint, masterTrack, received>>
    /\ UNCHANGED phase2Vars
    /\ UNCHANGED notRun

\* a worker reconstructs and segments its session and sends the result
\* (main.go:145-195)
WorkerProcess(r, i) ==
    /\ workerPc[r][i] = "loaded"
    /\ CanSend(r)
    /\ workerPc' = [workerPc EXCEPT ![r][i] = "done"]
    /\ results' = [results EXCEPT
                     ![r] = Append(@, ProcessSession(i, inputFiles[i], flags))]
    /\ sendCount' = [sendCount EXCEPT ![r][i] = @ + 1]
    /\ UNCHANGED <<inputFiles, flags, mainPc, allPoints, allLapIdx, lapsAdded,
                   lapSource, sessions, detectedSprint, masterTrack, received>>
    /\ UNCHANGED phase2Vars
    /\ UNCHANGED notRun

\* wg.Wait() returns and the channel is closed (main.go:197-198)
MainWait(r) ==
    /\ mainPc[r] = "wait"
    /\ \A i \in 1..Len(inputFiles) : workerPc[r][i] = "done"
    /\ mainPc' = [mainPc EXCEPT ![r] = "range"]
    /\ UNCHANGED <<inputFiles, flags, workerPc, results, allPoints, allLapIdx,
                   lapsAdded, lapSource, sessions, detectedSprint, masterTrack,
                   sendCount, received>>
    /\ UNCHANGED phase2Vars
    /\ UNCHANGED notRun

\* one iteration of the range loop over the channel (main.go:200-227)
MainReceive(r) ==
    /\ mainPc[r] = "range"
    /\ results[r] # <<>>
    /\ results' = [results EXCEPT ![r] = Tail(@)]
    /\ received' = [received EXCEPT ![r] = Append(@, Head(results[r]).path)]
    /\ \E res \in {Head(results[r])} :
          IF Skipped(res)
          THEN UNCHANGED <<allPoints, allLapIdx, lapsAdded, lapSource, sessions,
                           detectedSprint>>
          ELSE \E acc \in {AddLaps(res, flags.sprintMode \/ res.race = "sprint", 0,
                                   [points |-> allPoints[r], idx |-> allLapIdx[r],
                                    added |-> lapsAdded[r],
                                    source |-> lapSource[r]])} :
                  /\ allPoints' = [allPoints EXCEPT ![r] = acc.points]
                  /\ allLapIdx' = [allLapIdx EXCEPT ![r] = acc.idx]
                  /\ lapsAdded' = [lapsAdded EXCEPT ![r] = acc.added]
                  /\ lapSource' = [lapSource EXCEPT ![r] = acc.source]
                  /\ sessions' = [sessions EXCEPT ![r] = Append(@, res.path)]
                  /\ detectedSprint' = [detectedSprint EXCEPT
                                          ![r] = @ \/ res.race = "sprint"]
    /\ UNCHANGED <<inputFiles, flags, workerPc, mainPc, masterTrack, sendCount>>
    /\ UNCHANGED phase2Vars
    /\ UNCHANGED notRun

\* the channel is drained: exit without laps, else build the master path and
\* exit without one (main.go:229-276)
MainBuildMaster(r) ==
    /\ mainPc[r] = "range"
    /\ results[r] = <<>>
    /\ IF lapsAdded[r] = 0
       THEN /\ mainPc' = [mainPc EXCEPT ![r] = "exit1"]
            /\ UNCHANGED masterTrack
       ELSE \E master \in {MasterOfRun(allPoints[r], allLapIdx[r],
                                       flags.sprintMode \/ detectedSprint[r])} :
               /\ masterTrack' = [masterTrack EXCEPT ![r] = master]
               /\ mainPc' = [mainPc EXCEPT
                               ![r] = IF Len(master) = 0 THEN "exit1" ELSE "mapped"]
    /\ UNCHANGED <<inputFiles, flags, workerPc, results, allPoints, allLapIdx,
                   lapsAdded, lapSource, sessions, detectedSprint, sendCount,
                   received>>
    /\ UNCHANGED phase2Vars
    /\ UNCHANGED notRun

\* the steps of run r
RunStep(r) ==
    \/ \E i \in 1..Len(inputFiles) : WorkerLoad(r, i)
    \/ \E i \in 1..Len(inputFiles) : WorkerProcess(r, i)
    \/ MainWait(r)
    \/ MainReceive(r)
    \/ MainBuildMaster(r)

\* run r has ended
Ended(r) == mainPc[r] \in {"exit1", "mapped"}

\* one run of the program
NextRun == RunStep(1)

SpecRun == InitRun /\ [][NextRun]_vars

\* the program is run again on the same input once the first run has ended
Rerun == Ended(1) /\ RunStep(2)

NextRerun == RunStep(1) \/ Rerun

SpecRerun == InitRun /\ [][NextRerun]_vars

----------------------------------------------------------------------------
(* main, phase 2: one worker per aggregated session maps the session onto  *)
(* the master path into its own partial result; main joins the workers and *)
(* merges the partial results (src/main.go:278-734).  Modelled for run 1.   *)
(* A location is <<name, index>>; per-session data carries the session's   *)
(* input position, a worker's own data the worker's index, shared data 0.  *)

phase1Vars == <<inputFiles, flags, workerPc, results, mainPc, allPoints, allLapIdx,
                lapsAdded, lapSource, sessions, detectedSprint, masterTrack,
                sendCount, received>>

\* the writer index of the main routine
MainRoutine == 0

Access(by, kind, loc) ==
    [by |-> by, kind |-> kind, loc |-> loc,
     joined |-> \A j \in 1..Len(phase2Pc) : phase2Pc[j] = "done"]

\* the accumulators and outputs declared after wgSess.Wait() and out
\* (main.go:278-284, 703-713)
SharedLocations ==
    {<<n, 0>> : n \in {"sumSpeed", "countSpeed", "sumAccel", "countAccel",
                       "surfaceCounts", "mapped", "out.Cars", "out.Events",
                       "lappedCount", "sprintCount"}}

\* a worker that appends its events to the shared event list itself
WorkerWritesShared(k) ==
    {<<"res", k>>, <<"sess.events", sessions[1][k]>>, <<"out.Events", 0>>}

\* what worker k writes before it stores its result (main.go:313-697): its
\* partial result res with the accumulators in it, and the times of its
\* session's events
WorkerWrites(k) ==
    {<<"res", k>>, <<"sess.events", sessions[1][k]>>}

\* what worker k reads: its session and the master path
WorkerReads(k) ==
    {<<"sess", sessions[1][k]>>, <<"sess.events", sessions[1][k]>>,
     <<"masterTrack", 0>>}

NoPartial == [source |-> 0, sums |-> 0]

\* the partial result of worker k: its source and accumulators of the
\* length of the master path (main.go:315-322)
PartialOf(k) == [source |-> sessions[1][k], sums |-> Len(masterTrack[1])]

\* partials is allocated and one worker per session is started
\* (main.go:307-311)
MainStartPhase2 ==
    /\ mainPc[1] = "mapped"
    /\ mainPc' = [mainPc EXCEPT ![1] = "wait2"]
    /\ phase2Pc' = [k \in 1..Len(sessions[1]) |-> "ready"]
    /\ partials' = [k \in 1..Len(sessions[1]) |-> NoPartial]
    /\ UNCHANGED <<accesses, outCars>>
    /\ UNCHANGED <<inputFiles, flags, workerPc, results, allPoints, allLapIdx,
                   lapsAdded, lapSource, sessions, detectedSprint, masterTrack,
                   sendCount, received>>
    /\ UNCHANGED notRun

\* worker k maps its session and fills res (main.go:312-697)
Phase2Compute(k) ==
    /\ phase2Pc[k] = "ready"
    /\ phase2Pc' = [phase2Pc EXCEPT ![k] = "computed"]
    /\ accesses' = accesses
                      \cup {Access(k, "write", l) : l \in WorkerWrites(k)}
                      \cup {Access(k, "read", l) : l \in WorkerReads(k)}
    /\ UNCHANGED <<partials, outCars>>
    /\ UNCHANGED phase1Vars
    /\ UNCHANGED notRun

\* worker k stores res and is done (main.go:698-699, 311)
Phase2Store(k) ==
    /\ phase2Pc[k] = "computed"
    /\ phase2Pc' = [phase2Pc EXCEPT ![k] = "done"]
    /\ partials' = [partials EXCEPT ![k] = PartialOf(k)]
    /\ accesses' = accesses \cup {Access(k, "write", <<"partials", k>>)}
    /\ UNCHANGED outCars
    /\ UNCHANGED phase1Vars
    /\ UNCHANGED notRun

\* the join waits for one worker only
SomePhase2WorkerDone == \E k \in 1..Len(phase2Pc) : phase2Pc[k] = "done"

\* wgSess.Wait() returns (main.go:701)
AllPhase2WorkersDone == \A k \in 1..Len(phase2Pc) : phase2Pc[k] = "done"

\* main merges the partial results in session order (main.go:701-734)
MainMerge ==
    /\ mainPc[1] = "wait2"
    /\ AllPhase2WorkersDone
    /\ mainPc' = [mainPc EXCEPT ![1] = "done"]
    /\ outCars' = [k \in 1..Len(partials) |-> partials[k].source]
    /\ accesses' = accesses
                      \cup {Access(MainRoutine, "write", l) : l \in SharedLocations}
                      \cup {Access(MainRoutine, "read", <<"partials", k>>) :
                               k \in 1..Len(partials)}
    /\ UNCHANGED <<phase2Pc, partials>>
    /\ UNCHANGED <<inputFiles, flags, workerPc, results, allPoints, allLapIdx,
                   lapsAdded, lapSource, sessions, detectedSprint, masterTrack,
                   sendCount, received>>
    /\ UNCHANGED notRun

NextPipeline ==
    \/ RunStep(1)
    \/ MainStartPhase2
    \/ \E k \in 1..Len(phase2Pc) : Phase2Compute(k)
    \/ \E k \in 1..Len(phase2Pc) : Phase2Store(k)
    \/ MainMerge

SpecPipeline == InitRun /\ [][NextPipeline]_vars

\* the steps of the workers of both phases
WorkerSteps ==
    \/ \E i \in 1..Len(inputFiles) : WorkerLoad(1, i) \/ WorkerProcess(1, i)
    \/ \E k \in 1..Len(phase2Pc) : Phase2Compute(k) \/ Phase2Store(k)

\* the steps of the main routine but the master build
MainSteps == MainWait(1) \/ MainReceive(1) \/ MainStartPhase2 \/ MainMerge

\* MainBuildMaster(1) can be taken: its guard (main.go:229)
MasterBuildEnabled == mainPc[1] = "range" /\ results[1] = <<>>

\* weak fairness of the master build, its enabling condition written out
MasterBuildFair ==
    []<>(~MasterBuildEnabled) \/ []<><<MainBuildMaster(1)>>_vars

\* a goroutine that can take a step is scheduled in the end
SpecPipelineFair ==
    /\ SpecPipeline
    /\ WF_vars(WorkerSteps)
    /\ WF_vars(MainSteps)
    /\ MasterBuildFair

----------------------------------------------------------------------------
(* Properties of a run *)

\* the session fails: its file does not load or holds fewer than 2 samples
Failing(i) == ~inputFiles[i].readable \/ Len(inputFiles[i].track) < 2

\* how often session i is among the aggregated sessions of run r
TimesAggregated(r, i) ==
    Cardinality({k \in 1..Len(sessions[r]) : sessions[r][k] = i})

\* C18: a failing session contributes no laps and is not aggregated; the
\* other workers all finish and every result is received; every non-failing
\* session is aggregated exactly once; and the run ends with an error only
\* when no lap was aggregated (every session failed) or no master path could
\* be built.
C18_FailuresAreIsolated ==
    \A r \in Runs :
        /\ \A i \in 1..Len(inputFiles) :
              Failing(i) =>
                  /\ TimesAggregated(r, i) = 0
                  /\ \A k \in 1..Len(lapSource[r]) : lapSource[r][k] # i
        /\ Ended(r) =>
              /\ \A i \in 1..Len(inputFiles) : workerPc[r][i] = "done"
              /\ results[r] = <<>>
              /\ \A i \in 1..Len(inputFiles) :
                    ~Failing(i) =>
                        /\ TimesAggregated(r, i) = 1
                        /\ \E k \in 1..Len(lapSource[r]) : lapSource[r][k] = i
              /\ lapsAdded[r] = Len(lapSource[r])
              /\ lapsAdded[r] = 0 <=> \A i \in 1..Len(inputFiles) : Failing(i)
              /\ mainPc[r] = "exit1" =>
                    lapsAdded[r] = 0 \/ masterTrack[r] = <<>>

\* C18 witness: a run with a non-failing session and a failing one after it
\* that ended with one aggregated session and a master path
C18_Witness ==
    /\ mainPc[1] = "mapped"
    /\ \E i, j \in 1..Len(inputFiles) :
          /\ i > j
          /\ Failing(i) /\ ~Failing(j)
          /\ sessions[1] = <<j>>
          /\ lapsAdded[1] >= 1
    /\ masterTrack[1] # <<>>

C19_RunsAgree ==
    (Ended(1) /\ Ended(2)) =>
        /\ masterTrack[1] = masterTrack[2]
        /\ sessions[1] = sessions[2]

\* how often session i is among the results main has received in run r
TimesReceived(r, i) ==
    Cardinality({k \in 1..Len(received[r]) : received[r][k] = i})

\* the run has come to its end: an error exit or the merged output
RunComplete == mainPc[1] \in {"exit1", "done"}

PhasesInOrder ==
    \* every phase-1 worker delivers exactly one result ...
    /\ \A i \in 1..Len(inputFiles) :
          /\ sendCount[1][i] <= 1
          /\ workerPc[1][i] = "done" <=> sendCount[1][i] = 1
          \* ... and finds room in the channel when it sends
          /\ workerPc[1][i] # "done" => Len(results[1]) < Len(inputFiles)
    \* main aggregates only after all phase-1 workers have finished
    /\ received[1] # <<>> =>
          \A i \in 1..Len(inputFiles) : workerPc[1][i] = "done"
    \* and receives exactly one result per input
    /\ \A i \in 1..Len(inputFiles) : TimesReceived(1, i) <= 1
    /\ mainPc[1] \notin {"wait", "range"} =>
          \A i \in 1..Len(inputFiles) : TimesReceived(1, i) = 1
    \* the master path is built before any phase-2 worker starts
    /\ phase2Pc # <<>> =>
          /\ masterTrack[1] # <<>>
          /\ \A a \in accesses : a.loc = <<"masterTrack", 0>> => a.kind = "read"
          /\ \A k \in 1..Len(partials) :
                partials[k] # NoPartial => partials[k].sums = Len(masterTrack[1])
    \* merging starts only after all phase-2 workers have finished
    /\ (outCars # <<>> \/ mainPc[1] = "done") =>
          /\ \A k \in 1..Len(phase2Pc) : phase2Pc[k] = "done"
          /\ \A a \in accesses : a.by = MainRoutine => a.joined

\* C23: every phase-1 worker delivers exactly one result and never blocks on
\* the send; main starts aggregating only after all phase-1 workers have
\* finished and receives exactly one result per input; the master path is
\* built before any phase-2 worker starts; merging starts only after all
\* phase-2 workers have finished; and under every interleaving the run
\* reaches completion.
C23_PhasesInOrderAndComplete == []PhasesInOrder /\ <>RunComplete

\* C23 witness: a run of two sessions whose workers sent in the reverse of
\* the input order came through both phases to the merged output
C23_Witness ==
    /\ mainPc[1] = "done"
    /\ received[1] = <<2, 1>>
    /\ Len(outCars) = 2

\* what belongs to worker k alone
OwnLocations(k) ==
    {<<"res", k>>, <<"partials", k>>, <<"sess", sessions[1][k]>>,
     <<"sess.events", sessions[1][k]>>}

\* C24: in phase 2 worker k writes only its own partial result, its private
\* accumulators and its own session's events, and of the rest only reads
\* the master path; the shared sums, counts, histograms, mapped points and
\* event list are written only by the main routine after the join; no two
\* workers write the same location.
C24_WorkersWriteOnlyTheirOwn ==
    /\ \A a \in accesses :
          /\ (a.by # MainRoutine /\ a.kind = "write") => a.loc \in OwnLocations(a.by)
          /\ (a.by # MainRoutine /\ a.kind = "read")
                => a.loc \in OwnLocations(a.by) \cup {<<"masterTrack", 0>>}
          /\ a.loc \in SharedLocations
                => a.by = MainRoutine /\ a.joined
    /\ \A a, b \in accesses :
          ( /\ a.loc = b.loc /\ a.kind = "write" /\ b.kind = "write"
            /\ a.by # MainRoutine /\ b.by # MainRoutine )
              => a.by = b.by

\* C24 witness: two workers are running and both have written
C24_Witness ==
    /\ phase2Pc = <<"computed", "computed">>
    /\ \E a, b \in accesses :
          /\ a.by = 1 /\ b.by = 2
          /\ a.kind = "write" /\ b.kind = "write"
          /\ ~a.joined /\ ~b.joined

====
